---- MODULE Spec2Model ----
(***************************************************************************)
(* Order-book reconstruction (stage 2) of the Market-Prediction pipeline:  *)
(* OrderBook / OrderBookSnapshotBuilder (stage2_orderbook_builder.py) and  *)
(* OrderBookGPU / OrderBookSnapshotBuilderGPU                              *)
(* (stage2_orderbook_builder_GPU.py).                                      *)
(*                                                                         *)
(* One run of build_snapshots is modelled: every iteration of the event    *)
(* loop is one action (SnapshotEvent, UpdateEvent, OtherEvent), the code   *)
(* after the loop is EndOfInput.  The variable `variant` says which of the *)
(* two builders runs; it is fixed by Init.                                 *)
(*                                                                         *)
(* Prices, quantities and timestamps (seconds) are integers; a quantity   *)
(* of 1 stands for 0.5.  The Python                                        *)
(* floats ema_mid and mid are modelled in fixed point: the integer e       *)
(* stands for e / EmaScale, rounded down.                                  *)
(*                                                                         *)
(* Three more programs of the repository are modelled alongside, each      *)
(* with variables of its own that the others leave unchanged:              *)
(* FeatureEngineer.parse_level2 (feature_engineer.py; SpecParse), the      *)
(* threads of CryptoDataCollector (data_collector.py; SpecCollect) and     *)
(* run_with_restart of the two runner scripts (run_collector_24x7.py and   *)
(* scripts/run_collector_24x7.py; SpecRun, the variable `runner` says      *)
(* which script runs).                                                     *)
(***************************************************************************)
EXTENDS Integers, Sequences, FiniteSets, TLC

\* ------------------------------------------------------------------ bounds
\* Number of level2 rows one run consumes (Spec).
MaxEvents == 3
\* Number of level2 rows one run over a single product consumes (SpecOne).
MaxEventsOne == 5
\* Number of rows of one snapshot batch.
MaxBatch == 2
\* Timestamp of the last update of a run of SpecTick.
LastTick == 20
\* Resolution of the fixed-point model of the float ema_mid.
EmaScale == 1000
\* Number of level2 rows of a run of SpecTicker.
MaxEventsTicker == 3
\* Number of rows of the ticker file of a run of SpecTicker.
MaxTickers == 2
\* Number of level2 rows of a run of SpecPair.
MaxEventsPair == 3
\* Number of level2 rows of a run of SpecMalformed.
MaxEventsMalformed == 3
\* Largest quantity of a level of the books and batches of SpecRebuild.
MaxQty == 2
\* Largest number of levels of a side of a book of SpecDeep.
MaxDepth == 11
\* Number of level2 rows of a run of SpecSorted.
MaxEventsSorted == 4
\* Number of events parse_level2 reads in a run of SpecParse.
MaxEventsParse == 3
\* Number of entries of event['updates'] of one event.
MaxUpdates == 2
\* Number of messages the collector receives in a run of SpecCollect.
MaxMessages == 4
\* deque(maxlen=1000), scaled down: the capacity of each buffer.
maxlen == 2
\* Number of collector processes a run of SpecRun starts.
MaxLaunches == 9

\* ---------------------------------------------------------- input alphabet
Products == {"X", "Y"}
\* (side, price_level) of the rows: a healthy pair (bid 100, offer 101), a
\* crossing bid (101) and an offer far from the others (500).
Levels == {<<"bid", 100>>, <<"bid", 101>>, <<"offer", 101>>, <<"offer", 500>>}
Qtys == {0, 1}
\* (side, price_level) of the updates of SpecTick.
TickLevels == {<<"bid", 100>>, <<"offer", 101>>, <<"offer", 500>>}
Times == {0, 10}
\* Timestamps of the rows of SpecOne: all inside one snapshot interval.
TimesOne == {0, 5}
\* SpecTicker: level2 rows of product X at two timestamps, one healthy pair
\* of levels; the ticker file has rows for X at 97..109 (from 6 s before to
\* 6 s after the first timestamp) and for Y at 100 and 103.
TimesTicker == {103, 113}
LevelsPair == {<<"bid", 100>>, <<"offer", 101>>}
TickerKeys ==
    {<<t, "X">> : t \in 97..109} \cup {<<100, "Y">>, <<103, "Y">>}
\* SpecMalformed: rows with a side that is neither bid nor offer, and rows
\* with a negative quantity.
LevelsMalformed == {<<"bid", 100>>, <<"offer", 101>>, <<"sell", 100>>}
QtysMalformed == {1, -1}
\* SpecRebuild: the price levels of a side of a book.
PricesRebuild == {100, 101}
\* SpecRun: the exit codes of the collector process.
ReturnCodes == {0, 1}

\* --------------------------------------------------------------- constants
\* Python's None, for a timestamp, a product, an ema_mid.
None == -1
NoProduct == "None"
\* snapshot_interval_seconds=10
snapshot_interval_seconds == 10
\* sorted(...)[:10]
depth_levels == 10
\* self.alpha = 0.05, in percent
alpha_pct == 5
\* threshold=0.10, in percent
threshold_pct == 10
\* for delta_sec in range(1, 6)
ticker_tolerance_seconds == 5
\* for price, qty in levels[:5]
vwap_levels == 5
\* max_consecutive_failures = 8
max_consecutive_failures == 8
\* order_size = 0.1 if 'BTC' in self.product_id else 1.0: the products of
\* the model are not BTC pairs, and 1.0 is two units of quantity
order_size == 2

\* ----------------------------------------------------------------- helpers
Abs(x) == IF x < 0 THEN -x ELSE x

SetMax(S) == CHOOSE m \in S : \A x \in S : x <= m

SetMin(S) == CHOOSE m \in S : \A x \in S : m <= x

\* dict[k] = v
Put(d, k, v) == [x \in (DOMAIN d) \cup {k} |-> IF x = k THEN v ELSE d[x]]

\* dict.pop(k, None)
Pop(d, k) == [x \in (DOMAIN d) \ {k} |-> d[x]]

\* {} : the empty dict
EmptyDict == [x \in {} |-> 0]

\* Mutant of TopKeys: the slice [:n] is missing.
TopKeys_unsliced(S, n, desc) == S

\* The keys of the first n items of sorted(d.items(), reverse=desc).
RECURSIVE TopKeys(_, _, _)
TopKeys(S, n, desc) ==
    IF S = {} \/ n = 0 THEN {}
    ELSE LET m == IF desc THEN SetMax(S) ELSE SetMin(S)
         IN  {m} \cup TopKeys(S \ {m}, n - 1, desc)

\* sum(qty for _, qty in levels)
RECURSIVE SumQty(_, _)
SumQty(d, S) ==
    IF S = {} THEN 0
    ELSE LET k == CHOOSE x \in S : TRUE
         IN  d[k] + SumQty(d, S \ {k})

\* (best_bid + best_ask) / 2, in fixed point
MidPrice(best_bid, best_ask) == ((best_bid + best_ask) * EmaScale) \div 2

\* ------------------------------------------------------- OrderBook (basic)
\* OrderBook.__init__ / OrderBookGPU.__init__ (ema_mid stays None in the
\* basic class, which has no such field).
NewBook == [bids |-> EmptyDict, asks |-> EmptyDict, ema_mid |-> None]

\* The loop of apply_snapshot over the rows of events_df, after the clear.
RECURSIVE InsertRows(_, _)
InsertRows(book, events) ==
    IF events = <<>> THEN book
    ELSE LET row == Head(events)
             nb  == IF row.side = "bid"
                    THEN [book EXCEPT !.bids = Put(@, row.price_level, row.new_quantity)]
                    ELSE [book EXCEPT !.asks = Put(@, row.price_level, row.new_quantity)]
         IN  InsertRows(nb, Tail(events))

\* Rows added onto the levels of a book: "self.bids[price] += qty".
RECURSIVE AddRows(_, _)
AddRows(book, events) ==
    IF events = <<>> THEN book
    ELSE LET row == Head(events)
             old == IF row.side = "bid"
                    THEN IF row.price_level \in DOMAIN book.bids
                         THEN book.bids[row.price_level] ELSE 0
                    ELSE IF row.price_level \in DOMAIN book.asks
                         THEN book.asks[row.price_level] ELSE 0
             nb  == IF row.side = "bid"
                    THEN [book EXCEPT !.bids = Put(@, row.price_level, old + row.new_quantity)]
                    ELSE [book EXCEPT !.asks = Put(@, row.price_level, old + row.new_quantity)]
         IN  AddRows(nb, Tail(events))

\* Mutant of OrderBook_apply_snapshot: the batch is added onto the ladder
\* instead of replacing it.
OrderBook_apply_snapshot_accumulate(book, events) ==
    AddRows(book, events)

\* Mutant of OrderBook_apply_snapshot: the two clear() calls are missing.
OrderBook_apply_snapshot_no_clear(book, events) ==
    InsertRows(book, events)

OrderBook_apply_snapshot(book, events) ==
    InsertRows([book EXCEPT !.bids = EmptyDict, !.asks = EmptyDict], events)

\* Mutant of SetLevel: a quantity of 0 is stored like any other.
SetLevel_stores_zero(book, side, price, quantity) ==
    IF side = "bid"
    THEN [book EXCEPT !.bids = Put(@, price, quantity)]
    ELSE [book EXCEPT !.asks = Put(@, price, quantity)]

\* Put or pop one level: the two branches shared by both apply_update.
SetLevel(book, side, price, quantity) ==
    IF side = "bid"
    THEN IF quantity = 0
         THEN [book EXCEPT !.bids = Pop(@, price)]
         ELSE [book EXCEPT !.bids = Put(@, price, quantity)]
    ELSE IF quantity = 0
         THEN [book EXCEPT !.asks = Pop(@, price)]
         ELSE [book EXCEPT !.asks = Put(@, price, quantity)]

\* The test that makes apply_update return early: "if filter_outliers and
\* last_mid_price is not None: ... if price_diff_pct > 0.10: return".
\* last_mid_price is in fixed point (None when not given).
OrderBook_apply_update_rejects(price, filter_outliers, last_mid_price) ==
    /\ filter_outliers
    /\ last_mid_price # None
    /\ Abs(price * EmaScale - last_mid_price) * 100 > threshold_pct * last_mid_price

OrderBook_apply_update(book, side, price, quantity, filter_outliers, last_mid_price) ==
    IF OrderBook_apply_update_rejects(price, filter_outliers, last_mid_price)
    THEN book
    ELSE SetLevel(book, side, price, quantity)

NoFeatures ==
    [ok |-> FALSE, best_bid |-> 0, best_ask |-> 0, bid_volume_10 |-> 0, ask_volume_10 |-> 0]

\* Mutant of BookFeatures: the crossed-book test is "best_bid > best_ask".
BookFeatures_crossed_gt(book) ==
    IF DOMAIN book.bids = {} \/ DOMAIN book.asks = {} THEN NoFeatures
    ELSE LET top_bids == TopKeys(DOMAIN book.bids, depth_levels, TRUE)
             top_asks == TopKeys(DOMAIN book.asks, depth_levels, FALSE)
             best_bid == SetMax(top_bids)
             best_ask == SetMin(top_asks)
         IN  IF best_bid > best_ask THEN NoFeatures
             ELSE [ok |-> TRUE, best_bid |-> best_bid, best_ask |-> best_ask,
                   bid_volume_10 |-> SumQty(book.bids, top_bids),
                   ask_volume_10 |-> SumQty(book.asks, top_asks)]

\* The features of a book, or NoFeatures for the code's None.
BookFeatures(book) ==
    IF DOMAIN book.bids = {} \/ DOMAIN book.asks = {} THEN NoFeatures
    ELSE LET top_bids == TopKeys(DOMAIN book.bids, depth_levels, TRUE)
             top_asks == TopKeys(DOMAIN book.asks, depth_levels, FALSE)
             best_bid == SetMax(top_bids)
             best_ask == SetMin(top_asks)
         IN  IF best_bid >= best_ask THEN NoFeatures
             ELSE [ok |-> TRUE, best_bid |-> best_bid, best_ask |-> best_ask,
                   bid_volume_10 |-> SumQty(book.bids, top_bids),
                   ask_volume_10 |-> SumQty(book.asks, top_asks)]

\* Returns the features and the book (which the basic class leaves alone).
OrderBook_get_snapshot_features(book) ==
    [features |-> BookFeatures(book), book |-> book]

\* ---------------------------------------------------- OrderBookGPU (EMA)
\* Mutant of OrderBookGPU_update_ema: the weights alpha and 1 - alpha are
\* swapped.
OrderBookGPU_update_ema_swapped(book, current_mid) ==
    IF book.ema_mid = None
    THEN [book EXCEPT !.ema_mid = current_mid]
    ELSE [book EXCEPT !.ema_mid =
              ((100 - alpha_pct) * current_mid + alpha_pct * @) \div 100]

OrderBookGPU_update_ema(book, current_mid) ==
    IF book.ema_mid = None
    THEN [book EXCEPT !.ema_mid = current_mid]
    ELSE [book EXCEPT !.ema_mid =
              (alpha_pct * current_mid + (100 - alpha_pct) * @) \div 100]

\* Mutant of OrderBookGPU_is_outlier: the threshold is taken as a ratio of
\* 10 instead of 0.10.
OrderBookGPU_is_outlier_ratio(book, price) ==
    IF book.ema_mid = None THEN FALSE
    ELSE Abs(price * EmaScale - book.ema_mid) > threshold_pct * book.ema_mid

OrderBookGPU_is_outlier(book, price) ==
    IF book.ema_mid = None THEN FALSE
    ELSE Abs(price * EmaScale - book.ema_mid) * 100 > threshold_pct * book.ema_mid

OrderBookGPU_apply_snapshot(book, events) ==
    LET nb == InsertRows([book EXCEPT !.bids = EmptyDict, !.asks = EmptyDict], events)
    IN  IF DOMAIN nb.bids # {} /\ DOMAIN nb.asks # {}
        THEN OrderBookGPU_update_ema(
                 nb, MidPrice(SetMax(DOMAIN nb.bids), SetMin(DOMAIN nb.asks)))
        ELSE nb

OrderBookGPU_apply_update(book, side, price, quantity) ==
    IF OrderBookGPU_is_outlier(book, price)
    THEN book
    ELSE SetLevel(book, side, price, quantity)

\* Returns the features and the book with ema_mid updated on success.
OrderBookGPU_get_snapshot_features(book) ==
    LET f == BookFeatures(book)
    IN  IF f.ok
        THEN [features |-> f,
              book |-> OrderBookGPU_update_ema(book, MidPrice(f.best_bid, f.best_ask))]
        ELSE [features |-> f, book |-> book]

\* The columns the basic class does not have.
NoDerived ==
    [raised |-> FALSE, mid_price |-> 0, microprice |-> 0, order_imbalance |-> 0,
     bid_vwap |-> 0, ask_vwap |-> 0, market_impact_bps |-> 0]

\* n / d in fixed point (rounded down), or ZeroDivisionError.
Div(n, d) ==
    IF d = 0 THEN [raised |-> TRUE, value |-> 0]
    ELSE [raised |-> FALSE, value |-> (n * EmaScale) \div d]

Value(v) == [raised |-> FALSE, value |-> v]

\* Mutant of Microprice: the test "total_size > 0" is missing.
Microprice_unguarded(best_bid, best_ask, bid_volume_10, ask_volume_10) ==
    Div(best_bid * ask_volume_10 + best_ask * bid_volume_10,
        bid_volume_10 + ask_volume_10)

\* microprice = (best_bid * ask_volume_10 + best_ask * bid_volume_10) /
\* total_size if total_size > 0 else mid_price
Microprice(best_bid, best_ask, bid_volume_10, ask_volume_10) ==
    LET total_size == bid_volume_10 + ask_volume_10
    IN  IF total_size > 0
        THEN Div(best_bid * ask_volume_10 + best_ask * bid_volume_10, total_size)
        ELSE Value(MidPrice(best_bid, best_ask))

\* order_imbalance = (bid_volume_10 - ask_volume_10) / total_size if
\* total_size > 0 else 0.0
OrderImbalance(bid_volume_10, ask_volume_10) ==
    LET total_size == bid_volume_10 + ask_volume_10
    IN  IF total_size > 0 THEN Div(bid_volume_10 - ask_volume_10, total_size)
        ELSE Value(0)

\* sum(price * qty for price, qty in levels)
RECURSIVE SumNotional(_, _)
SumNotional(d, S) ==
    IF S = {} THEN 0
    ELSE LET k == CHOOSE x \in S : TRUE
         IN  k * d[k] + SumNotional(d, S \ {k})

\* compute_vwap(levels, is_bid) over a non-empty ladder side
compute_vwap(d, is_bid) ==
    LET top      == TopKeys(TopKeys(DOMAIN d, depth_levels, is_bid), vwap_levels, is_bid)
        vwap_sum == SumNotional(d, top)
        vol_sum  == SumQty(d, top)
    IN  IF vol_sum > 0 THEN Div(vwap_sum, vol_sum)
        ELSE Value((IF is_bid THEN SetMax(top) ELSE SetMin(top)) * EmaScale)

\* The loop "for price, qty in top_asks" of the market-impact estimate: S
\* are the ask levels not yet visited, by ascending price.
RECURSIVE Fill(_, _, _, _)
Fill(asks, S, cumulative_vol, impact_price) ==
    IF S = {} \/ cumulative_vol >= order_size
    THEN [cumulative_vol |-> cumulative_vol, impact_price |-> impact_price]
    ELSE LET price    == SetMin(S)
             rest     == order_size - cumulative_vol
             take_qty == IF asks[price] < rest THEN asks[price] ELSE rest
         IN  Fill(asks, S \ {price}, cumulative_vol + take_qty,
                  impact_price + price * take_qty)

\* slippage_bps = ((avg_fill_price - best_ask) / best_ask) * 10000 if
\* cumulative_vol > 0 else 0
MarketImpact(asks, top_asks, best_ask) ==
    LET f == Fill(asks, top_asks, 0, 0)
    IN  IF f.cumulative_vol > 0
        THEN LET avg_fill_price == Div(f.impact_price, f.cumulative_vol)
                 \* in whole basis points: 10000 / EmaScale = 10
                 slippage ==
                     IF best_ask = 0 THEN [raised |-> TRUE, value |-> 0]
                     ELSE Value((10 * (avg_fill_price.value - best_ask * EmaScale))
                                    \div best_ask)
             IN  [raised |-> avg_fill_price.raised \/ slippage.raised,
                  value |-> slippage.value]
        ELSE Value(0)

\* The columns OrderBookGPU.get_snapshot_features adds to those of
\* BookFeatures, for a book the function does not return None for.
OrderBookGPU_derived(book, f) ==
    LET top_asks   == TopKeys(DOMAIN book.asks, depth_levels, FALSE)
        microprice == Microprice(f.best_bid, f.best_ask, f.bid_volume_10,
                                 f.ask_volume_10)
        imbalance  == OrderImbalance(f.bid_volume_10, f.ask_volume_10)
        bid_vwap   == compute_vwap(book.bids, TRUE)
        ask_vwap   == compute_vwap(book.asks, FALSE)
        impact     == MarketImpact(book.asks, top_asks, f.best_ask)
    IN  [raised |-> microprice.raised \/ imbalance.raised \/ bid_vwap.raised
                        \/ ask_vwap.raised \/ impact.raised,
         mid_price |-> MidPrice(f.best_bid, f.best_ask),
         microprice |-> microprice.value,
         order_imbalance |-> imbalance.value,
         bid_vwap |-> bid_vwap.value,
         ask_vwap |-> ask_vwap.value,
         market_impact_bps |-> impact.value]

\* The derived columns of the row builder v writes for features f of book.
Derived(v, book, f) ==
    IF v = "gpu" /\ f.ok THEN OrderBookGPU_derived(book, f) ELSE NoDerived

\* if current_timestamp != timestamp or current_product != product_id
NewKey_timestamp_only(ct, cp, timestamp, product_id) ==
    ct # timestamp

NewKey(ct, cp, timestamp, product_id) ==
    ct # timestamp \/ cp # product_id

\* ---------------------------------------------- dispatch on the builder
\* orderbooks[product].apply_snapshot(events_df)
ApplySnapshot(v, book, events) ==
    IF v = "basic" THEN OrderBook_apply_snapshot(book, events)
    ELSE OrderBookGPU_apply_snapshot(book, events)

\* orderbooks[product].get_snapshot_features()
GetFeatures(v, book) ==
    IF v = "basic" THEN OrderBook_get_snapshot_features(book)
    ELSE OrderBookGPU_get_snapshot_features(book)

\* The builders call apply_update(side, price, quantity): the basic one
\* leaves filter_outliers=True and last_mid_price=None at their defaults.
ApplyUpdate(v, book, side, price, quantity) ==
    IF v = "basic" THEN OrderBook_apply_update(book, side, price, quantity, TRUE, None)
    ELSE OrderBookGPU_apply_update(book, side, price, quantity)

\* Whether the apply_update call of the builder returns early.
ApplyUpdateRejects(v, book, price) ==
    IF v = "basic" THEN OrderBook_apply_update_rejects(price, TRUE, None)
    ELSE OrderBookGPU_is_outlier(book, price)

\* Mutant of DriverSkips: the builder never tests the price itself.
DriverSkips_never(v, book, price) ==
    FALSE

\* GPU builder only: "if book._is_outlier(price): outliers_filtered += 1;
\* continue".  The basic builder has no such test.
DriverSkips(v, book, price) ==
    v = "gpu" /\ OrderBookGPU_is_outlier(book, price)

\* Mutant of IsDue: every update is due.
IsDue_always(v, last_time, timestamp) == TRUE

\* Mutant of IsDue: "time_diff > self.snapshot_interval_seconds".
IsDue_gt(v, last_time, timestamp) ==
    IF last_time = None THEN TRUE
    ELSE timestamp - last_time > snapshot_interval_seconds

\* time_diff >= self.snapshot_interval_seconds, with time_diff = inf when
\* last_time is None (basic builder).
OrderBookSnapshotBuilder_is_due(last_time, timestamp) ==
    IF last_time = None THEN TRUE
    ELSE timestamp - last_time >= snapshot_interval_seconds

\* GPU builder: "... if last_time else float('inf')"; a pandas Timestamp is
\* always truthy, so only None takes the else branch.
OrderBookSnapshotBuilderGPU_is_due(last_time, timestamp) ==
    IF last_time # None
    THEN timestamp - last_time >= snapshot_interval_seconds
    ELSE TRUE

IsDue(v, last_time, timestamp) ==
    IF v = "basic" THEN OrderBookSnapshotBuilder_is_due(last_time, timestamp)
    ELSE OrderBookSnapshotBuilderGPU_is_due(last_time, timestamp)

\* Mutant of SetLastSnapshotTime: the assignment is outside the
\* "features is not None" branch.
SetLastSnapshotTime_always(lst, product_id, timestamp, wrote) ==
    [lst EXCEPT ![product_id] = timestamp]

\* last_snapshot_time[product] = timestamp, after a row was written.
SetLastSnapshotTime(lst, product_id, timestamp, wrote) ==
    IF wrote THEN [lst EXCEPT ![product_id] = timestamp] ELSE lst

\* Mutant of Wrote: a row is written only when a ticker was found.
Wrote_requires_ticker(features, ticker_data) ==
    features.ok /\ ticker_data.ticker_price # None

\* "if features is not None:" the row is written, whatever ticker_data is.
Wrote(features, ticker_data) ==
    features.ok

\* ------------------------------------------------------------ ticker join
\* The value of ticker_lookup[ts][product_id]: of its five columns the
\* price is kept.  The empty dict {} is the record with price None.
NoTickerData == [ticker_price |-> None]

\* The price column of the ticker row of (ts, product_id) in the ticker file.
TickerPrice(ts, product_id) == IF product_id = "X" THEN 1000 + ts ELSE 2000 + ts

\* load_ticker_data: the lookup built from the ticker rows with the keys K;
\* without a ticker file the lookup is empty.
LoadTickerData(K) == [k \in K |-> TickerPrice(k[1], k[2])]

\* ticker_lookup.get(ts, {}).get(product_id, {})
TickerGet(lookup, ts, product_id) ==
    IF <<ts, product_id>> \in DOMAIN lookup
    THEN [ticker_price |-> lookup[<<ts, product_id>>]]
    ELSE NoTickerData

\* Mutant of SearchDelta: past_ts is tried before future_ts.
RECURSIVE SearchDelta_past_first(_, _, _, _)
SearchDelta_past_first(lookup, timestamp, product_id, delta_sec) ==
    IF delta_sec > ticker_tolerance_seconds THEN NoTickerData
    ELSE LET past   == TickerGet(lookup, timestamp - delta_sec, product_id)
             future == TickerGet(lookup, timestamp + delta_sec, product_id)
         IN  IF past # NoTickerData THEN past
             ELSE IF future # NoTickerData THEN future
             ELSE SearchDelta_past_first(lookup, timestamp, product_id, delta_sec + 1)

\* for delta_sec in range(1, 6): future_ts first, then past_ts; break on
\* the first hit.
RECURSIVE SearchDelta(_, _, _, _)
SearchDelta(lookup, timestamp, product_id, delta_sec) ==
    IF delta_sec > ticker_tolerance_seconds THEN NoTickerData
    ELSE LET future == TickerGet(lookup, timestamp + delta_sec, product_id)
             past   == TickerGet(lookup, timestamp - delta_sec, product_id)
         IN  IF future # NoTickerData THEN future
             ELSE IF past # NoTickerData THEN past
             ELSE SearchDelta(lookup, timestamp, product_id, delta_sec + 1)

\* The lookup of the update path: exact, then the search within +-5 s.
TickerLookupTolerant(lookup, timestamp, product_id) ==
    LET ticker_data == TickerGet(lookup, timestamp, product_id)
    IN  IF ticker_data # NoTickerData THEN ticker_data
        ELSE SearchDelta(lookup, timestamp, product_id, 1)

\* ------------------------------------------------------------------ state
VARIABLES
    variant,              \* "basic": OrderBookSnapshotBuilder, "gpu": ...GPU
    pc,                   \* "loop" while rows are consumed, then "done"
    orderbooks,           \* product_id -> book, created on first sight
    last_snapshot_time,   \* defaultdict(lambda: None)
    current_timestamp,
    current_product,
    snapshot_events,      \* the pending snapshot batch
    snapshot_count,
    event_type_counts,
    crossed_book_count,
    outliers_filtered,
    written,              \* rows handed to writer.writerow / snapshots_list
    written_ticker,       \* the ticker_data merged into each row of written
    ticker_lookup,        \* the lookup load_ticker_data returned
    idx,                  \* rows consumed so far
    last_ts,              \* input: timestamp of the last row of each product
    event,                \* history: the row consumed by the last step
    attempt,              \* history: the emission attempt of the last step
    closed,               \* history: the batch closed by the last step
    failed_attempts,      \* history: attempts that returned None so far
    failed_since,         \* history: per product, the path of the first failed
                          \* attempt since its last written row, or "none"
    applied_updates,      \* history: updates that reached the ladder code
    shadow,               \* history: the builder's state had it been given
                          \* only the rows of product Observed (when on)
    derived,              \* the GPU-only columns of the last row of written
    snapshot_keys,        \* history: the (timestamp, product_id) of the row
                          \* each entry of snapshot_events was made from
    \* FeatureEngineer.parse_level2 (feature_engineer.py)
    orderbook,            \* defaultdict: product_id -> {'bids', 'asks'}
    snapshots,            \* the list the DataFrame is made of
    fe_pc,                \* "loop", then "done" or "raised"
    fe_event,             \* history: the event read by the last step
    fe_count,             \* history: events read so far
    \* CryptoDataCollector (data_collector.py)
    ticker_buffer,        \* deque(maxlen=...)
    level2_buffer,
    stats,
    running,
    ticker_file,          \* the lines appended to the ticker files
    level2_file,          \* the lines appended to the level2 files
    ws,                   \* "open" until on_close is called, then "closed"
    flusher,              \* per thread: where it is in flush_buffers, and
                          \* the message it has popped and not yet written
    received,             \* history: messages handed to on_message
    \* run_with_restart (run_collector_24x7.py, scripts/run_collector_24x7.py)
    runner,               \* which of the two scripts runs; fixed by Init
    runner_pc,
    consecutive_failures,
    wait_time,            \* argument of the last time.sleep, None before
    return_code,          \* of the last process.wait(), None before
    runner_event,         \* history: what the last step of the runner was
    exits_in_a_row,       \* history: collector exits since the last launch
                          \* that did not end in an exit
    launches              \* history: collector processes started

builder_vars ==
    <<variant, pc, orderbooks, last_snapshot_time, current_timestamp,
      current_product, snapshot_events, snapshot_count, event_type_counts,
      crossed_book_count, outliers_filtered, written, last_ts, event,
      attempt, closed, failed_attempts, failed_since, written_ticker,
      ticker_lookup, idx, applied_updates, shadow, derived, snapshot_keys>>

fe_vars == <<orderbook, snapshots, fe_pc, fe_event, fe_count>>

collector_vars ==
    <<ticker_buffer, level2_buffer, stats, running, ticker_file, level2_file, ws,
      flusher, received>>

runner_vars ==
    <<runner, runner_pc, consecutive_failures, wait_time, return_code, runner_event,
      exits_in_a_row, launches>>

\* What a run of build_snapshots leaves alone.
other_programs == <<fe_vars, collector_vars, runner_vars>>

vars == <<builder_vars, fe_vars, collector_vars, runner_vars>>

NoEvent ==
    [event_type |-> "none", timestamp |-> None, product_id |-> NoProduct,
     side |-> "none", price_level |-> 0, new_quantity |-> 0]

LevelEvent(event_type, timestamp, product_id, side, price_level, new_quantity) ==
    [event_type |-> event_type, timestamp |-> timestamp, product_id |-> product_id,
     side |-> side, price_level |-> price_level, new_quantity |-> new_quantity]

NoAttempt ==
    [made |-> FALSE, path |-> "none", product |-> NoProduct, timestamp |-> None,
     ok |-> FALSE]

Attempt(path, product, timestamp, ok) ==
    [made |-> TRUE, path |-> path, product |-> product, timestamp |-> timestamp,
     ok |-> ok]

NoClose ==
    [by |-> "none", product |-> NoProduct, timestamp |-> None, events |-> <<>>]

Close(by, product, timestamp, events) ==
    [by |-> by, product |-> product, timestamp |-> timestamp, events |-> events]

\* The row written for a snapshot (ticker columns aside).
Row(timestamp, product_id, features) ==
    [timestamp |-> timestamp, product_id |-> product_id,
     best_bid |-> features.best_bid, best_ask |-> features.best_ask,
     bid_volume_10 |-> features.bid_volume_10,
     ask_volume_10 |-> features.ask_volume_10]

\* Rows consumed so far (idx + 1).
Consumed ==
    event_type_counts.snapshot + event_type_counts.update + event_type_counts.other

\* The product whose rows the history variable shadow follows.
Observed == "X"

\* The locals of build_snapshots before the loop, as the shadow holds them.
ShadowOff ==
    [on |-> FALSE, orderbooks |-> EmptyDict,
     last_snapshot_time |-> [p \in Products |-> None],
     current_timestamp |-> None, current_product |-> NoProduct,
     snapshot_events |-> <<>>, written |-> <<>>]

ShadowOn == [ShadowOff EXCEPT !.on = TRUE]

\* parse_level2 before the first line: "orderbook = defaultdict(...)",
\* "snapshots = []".
NoLine == [type |-> "none", timestamp |-> None, product_id |-> NoProduct, updates |-> <<>>]

InitFeatureEngineer ==
    /\ orderbook = EmptyDict
    /\ snapshots = <<>>
    /\ fe_pc = "loop"
    /\ fe_event = NoLine
    /\ fe_count = 0

\* The threads that call flush_buffers: the daemon thread running
\* periodic_flush, and the thread running ws.run_forever (on_close).
Flushers == {"periodic", "main"}

At(step, ch) == [step |-> step, ch |-> ch, held |-> None]

\* CryptoDataCollector.__init__, the connection open.
InitCollector ==
    /\ ticker_buffer = <<>>
    /\ level2_buffer = <<>>
    /\ stats = [ticker_count |-> 0, level2_count |-> 0]
    /\ running = TRUE
    /\ ticker_file = <<>>
    /\ level2_file = <<>>
    /\ ws = "open"
    /\ flusher = [t \in Flushers |->
                      IF t = "periodic" THEN At("sleep", "none") ELSE At("idle", "none")]
    /\ received = 0

\* The two scripts that define run_with_restart.
Original == "run_collector_24x7.py"
Restructured == "scripts/run_collector_24x7.py"

\* run_with_restart of script r before the first iteration of "while True".
InitRunner(r) ==
    /\ runner = r
    /\ runner_pc = "start"
    /\ consecutive_failures = 0
    /\ wait_time = None
    /\ return_code = None
    /\ runner_event = "none"
    /\ exits_in_a_row = 0
    /\ launches = 0

\* The other programs have not taken a step.
OthersIdle ==
    /\ InitFeatureEngineer
    /\ InitCollector
    /\ InitRunner(Original)

\* The locals of build_snapshots before the loop, and the history variables.
InitLocals ==
    /\ variant \in {"basic", "gpu"}
    /\ last_snapshot_time = [p \in Products |-> None]
    /\ snapshot_count = 0
    /\ event_type_counts = [snapshot |-> 0, update |-> 0, other |-> 0]
    /\ crossed_book_count = 0
    /\ outliers_filtered = 0
    /\ written = <<>>
    /\ written_ticker = <<>>
    /\ idx = 0
    /\ last_ts = [p \in Products |-> 0]
    /\ event = NoEvent
    /\ attempt = NoAttempt
    /\ closed = NoClose
    /\ failed_attempts = 0
    /\ failed_since = [p \in Products |-> "none"]
    /\ applied_updates = 0
    /\ derived = NoDerived

\* No book, no pending batch: the loop is about to read the first row.
InitLoop ==
    /\ pc = "loop"
    /\ orderbooks = EmptyDict
    /\ current_timestamp = None
    /\ current_product = NoProduct
    /\ snapshot_events = <<>>
    /\ snapshot_keys = <<>>

\* A run without a ticker file.
Init ==
    /\ InitLocals
    /\ InitLoop
    /\ ticker_lookup = LoadTickerData({})
    /\ shadow = ShadowOff
    /\ OthersIdle

\* if product_id not in orderbooks: orderbooks[product_id] = OrderBook(...)
WithBook(obs, product_id) ==
    IF product_id \in DOMAIN obs THEN obs ELSE Put(obs, product_id, NewBook)

\* One iteration of the loop of builder v as a function of the locals s
\* (ticker columns and counters aside).
LoopBody(v, s, row) ==
    LET timestamp  == row.timestamp
        product_id == row.product_id
        obs0       == WithBook(s.orderbooks, product_id)
        pending    == s.snapshot_events # <<>>
        applied    == [obs0 EXCEPT ![s.current_product] =
                           ApplySnapshot(v, @, s.snapshot_events)]
    IN  IF row.event_type = "snapshot"
        THEN LET newKey == NewKey(s.current_timestamp, s.current_product,
                                  timestamp, product_id)
                 flush  == newKey /\ pending
                 r      == GetFeatures(v, applied[s.current_product])
                 wrote  == flush /\ Wrote(r.features, NoTickerData)
                 entry  == [side |-> row.side, price_level |-> row.price_level,
                            new_quantity |-> row.new_quantity]
             IN  [on |-> s.on,
                  orderbooks |->
                      IF flush THEN [applied EXCEPT ![s.current_product] = r.book]
                      ELSE obs0,
                  last_snapshot_time |->
                      IF flush
                      THEN SetLastSnapshotTime(s.last_snapshot_time, s.current_product,
                                               s.current_timestamp, wrote)
                      ELSE s.last_snapshot_time,
                  current_timestamp |-> IF newKey THEN timestamp ELSE s.current_timestamp,
                  current_product |-> IF newKey THEN product_id ELSE s.current_product,
                  snapshot_events |->
                      Append(IF flush THEN <<>> ELSE s.snapshot_events, entry),
                  written |->
                      IF wrote
                      THEN Append(s.written,
                                  Row(s.current_timestamp, s.current_product, r.features))
                      ELSE s.written]
        ELSE IF row.event_type = "update"
        THEN LET obs1    == IF pending THEN applied ELSE obs0
                 skipped == DriverSkips(v, obs1[product_id], row.price_level)
                 obs2    == [obs1 EXCEPT ![product_id] =
                                 ApplyUpdate(v, @, row.side, row.price_level,
                                             row.new_quantity)]
                 due     == IsDue(v, s.last_snapshot_time[product_id], timestamp)
                 r       == GetFeatures(v, obs2[product_id])
                 tried   == ~skipped /\ due
                 wrote   == tried /\ Wrote(r.features, NoTickerData)
             IN  [on |-> s.on,
                  orderbooks |->
                      IF skipped THEN obs1
                      ELSE IF tried THEN [obs2 EXCEPT ![product_id] = r.book]
                      ELSE obs2,
                  last_snapshot_time |->
                      SetLastSnapshotTime(s.last_snapshot_time, product_id, timestamp, wrote),
                  current_timestamp |->
                      IF pending /\ v = "basic" THEN None ELSE s.current_timestamp,
                  current_product |->
                      IF pending /\ v = "basic" THEN NoProduct ELSE s.current_product,
                  snapshot_events |-> <<>>,
                  written |->
                      IF wrote THEN Append(s.written, Row(timestamp, product_id, r.features))
                      ELSE s.written]
        ELSE [s EXCEPT !.orderbooks = obs0]

\* The code after the loop of builder v as a function of the locals s.
AfterLoop(v, s) ==
    LET flush   == v = "basic" /\ s.snapshot_events # <<>>
                   /\ s.current_product # NoProduct
        applied == [s.orderbooks EXCEPT ![s.current_product] =
                        ApplySnapshot(v, @, s.snapshot_events)]
        r       == GetFeatures(v, applied[s.current_product])
        wrote   == flush /\ Wrote(r.features, NoTickerData)
    IN  [s EXCEPT !.orderbooks =
                      IF flush THEN [applied EXCEPT ![s.current_product] = r.book]
                      ELSE @,
                  !.written =
                      IF wrote
                      THEN Append(@, Row(s.current_timestamp, s.current_product, r.features))
                      ELSE @]

\* The shadow after the row: it consumes the rows of Observed only.
ShadowStep(row) ==
    IF shadow.on /\ row.product_id = Observed
    THEN LoopBody(variant, shadow, row)
    ELSE shadow

\* ------------------------------------------------- event_type == 'snapshot'
SnapshotEvent(timestamp, product_id, side, price_level, new_quantity) ==
    /\ pc = "loop"
    /\ timestamp >= last_ts[product_id]
    /\ LET obs0    == WithBook(orderbooks, product_id)
           newKey  == NewKey(current_timestamp, current_product, timestamp, product_id)
           flush   == newKey /\ snapshot_events # <<>>
           applied == [obs0 EXCEPT ![current_product] =
                           ApplySnapshot(variant, @, snapshot_events)]
           r       == GetFeatures(variant, applied[current_product])
           \* the batch path looks the ticker up at the exact timestamp only
           ticker_data == TickerGet(ticker_lookup, current_timestamp, current_product)
           wrote   == flush /\ Wrote(r.features, ticker_data)
           entry   == [side |-> side, price_level |-> price_level,
                       new_quantity |-> new_quantity]
       IN  /\ orderbooks' =
                  IF flush THEN [applied EXCEPT ![current_product] = r.book] ELSE obs0
           /\ written' =
                  IF wrote
                  THEN Append(written, Row(current_timestamp, current_product, r.features))
                  ELSE written
           /\ written_ticker' =
                  IF wrote THEN Append(written_ticker, ticker_data) ELSE written_ticker
           /\ snapshot_count' = IF wrote THEN snapshot_count + 1 ELSE snapshot_count
           /\ last_snapshot_time' =
                  IF flush
                  THEN SetLastSnapshotTime(last_snapshot_time, current_product,
                                           current_timestamp, wrote)
                  ELSE last_snapshot_time
           /\ failed_since' =
                  IF flush
                  THEN [failed_since EXCEPT ![current_product] =
                            IF wrote THEN "none"
                            ELSE IF @ = "none" THEN "batch" ELSE @]
                  ELSE failed_since
           /\ current_timestamp' = IF newKey THEN timestamp ELSE current_timestamp
           /\ current_product' = IF newKey THEN product_id ELSE current_product
           /\ snapshot_events' =
                  Append(IF flush THEN <<>> ELSE snapshot_events, entry)
           /\ snapshot_keys' =
                  Append(IF flush THEN <<>> ELSE snapshot_keys, <<timestamp, product_id>>)
           /\ derived' =
                  IF wrote THEN Derived(variant, applied[current_product], r.features)
                  ELSE derived
           /\ attempt' =
                  IF flush
                  THEN Attempt("batch", current_product, current_timestamp, r.features.ok)
                  ELSE NoAttempt
           /\ closed' =
                  IF flush
                  THEN Close("snapshot", current_product, current_timestamp, snapshot_events)
                  ELSE NoClose
           /\ failed_attempts' =
                  IF flush /\ ~r.features.ok THEN failed_attempts + 1 ELSE failed_attempts
    /\ event_type_counts' = [event_type_counts EXCEPT !.snapshot = @ + 1]
    /\ idx' = idx + 1
    /\ event' = LevelEvent("snapshot", timestamp, product_id, side, price_level, new_quantity)
    /\ shadow' = ShadowStep(event')
    /\ last_ts' = [last_ts EXCEPT ![product_id] = timestamp]
    /\ UNCHANGED <<variant, pc, crossed_book_count, outliers_filtered, ticker_lookup,
                   applied_updates>>
    /\ UNCHANGED other_programs

\* --------------------------------------------------- event_type == 'update'
UpdateEvent(timestamp, product_id, side, price_level, new_quantity) ==
    /\ pc = "loop"
    /\ timestamp >= last_ts[product_id]
    /\ LET obs0     == WithBook(orderbooks, product_id)
           pending  == snapshot_events # <<>>
           \* Process any pending snapshot first (no emission is attempted here)
           obs1     == IF pending
                       THEN [obs0 EXCEPT ![current_product] =
                                 ApplySnapshot(variant, @, snapshot_events)]
                       ELSE obs0
           \* GPU builder only: if book._is_outlier(price): ... continue
           skipped  == DriverSkips(variant, obs1[product_id], price_level)
           rejected == ApplyUpdateRejects(variant, obs1[product_id], price_level)
           obs2     == [obs1 EXCEPT ![product_id] =
                            ApplyUpdate(variant, @, side, price_level, new_quantity)]
           last_time == last_snapshot_time[product_id]
           due      == IsDue(variant, last_time, timestamp)
           r        == GetFeatures(variant, obs2[product_id])
           tried    == ~skipped /\ due
           ticker_data == TickerLookupTolerant(ticker_lookup, timestamp, product_id)
           wrote    == tried /\ Wrote(r.features, ticker_data)
       IN  /\ orderbooks' =
                  IF skipped THEN obs1
                  ELSE IF tried THEN [obs2 EXCEPT ![product_id] = r.book]
                  ELSE obs2
           /\ outliers_filtered' =
                  IF skipped THEN outliers_filtered + 1 ELSE outliers_filtered
           /\ applied_updates' =
                  IF ~skipped /\ ~rejected THEN applied_updates + 1 ELSE applied_updates
           /\ crossed_book_count' =
                  IF tried /\ ~r.features.ok
                  THEN crossed_book_count + 1 ELSE crossed_book_count
           /\ written' =
                  IF wrote THEN Append(written, Row(timestamp, product_id, r.features))
                  ELSE written
           /\ written_ticker' =
                  IF wrote THEN Append(written_ticker, ticker_data) ELSE written_ticker
           /\ snapshot_count' = IF wrote THEN snapshot_count + 1 ELSE snapshot_count
           /\ derived' =
                  IF wrote THEN Derived(variant, obs2[product_id], r.features)
                  ELSE derived
           /\ last_snapshot_time' =
                  SetLastSnapshotTime(last_snapshot_time, product_id, timestamp, wrote)
           /\ failed_since' =
                  IF wrote THEN [failed_since EXCEPT ![product_id] = "none"]
                  ELSE IF tried
                  THEN [failed_since EXCEPT ![product_id] =
                            IF @ = "none" THEN "update" ELSE @]
                  ELSE failed_since
           \* the basic builder forgets the batch key, the GPU builder keeps it
           /\ current_timestamp' =
                  IF pending /\ variant = "basic" THEN None ELSE current_timestamp
           /\ current_product' =
                  IF pending /\ variant = "basic" THEN NoProduct ELSE current_product
           /\ attempt' =
                  IF tried THEN Attempt("update", product_id, timestamp, r.features.ok)
                  ELSE NoAttempt
           /\ closed' =
                  IF pending
                  THEN Close("update", current_product, current_timestamp, snapshot_events)
                  ELSE NoClose
           /\ failed_attempts' =
                  IF tried /\ ~r.features.ok THEN failed_attempts + 1 ELSE failed_attempts
    /\ snapshot_events' = <<>>
    /\ snapshot_keys' = <<>>
    /\ event_type_counts' = [event_type_counts EXCEPT !.update = @ + 1]
    /\ idx' = idx + 1
    /\ event' = LevelEvent("update", timestamp, product_id, side, price_level, new_quantity)
    /\ shadow' = ShadowStep(event')
    /\ last_ts' = [last_ts EXCEPT ![product_id] = timestamp]
    /\ UNCHANGED <<variant, pc, ticker_lookup>>
    /\ UNCHANGED other_programs

\* ------------------------------------- any other event_type: counted only
OtherEvent(timestamp, product_id) ==
    /\ pc = "loop"
    /\ timestamp >= last_ts[product_id]
    /\ orderbooks' = WithBook(orderbooks, product_id)
    /\ event_type_counts' = [event_type_counts EXCEPT !.other = @ + 1]
    /\ idx' = idx + 1
    /\ event' = LevelEvent("other", timestamp, product_id, "none", 0, 0)
    /\ shadow' = ShadowStep(event')
    /\ last_ts' = [last_ts EXCEPT ![product_id] = timestamp]
    /\ attempt' = NoAttempt
    /\ closed' = NoClose
    /\ UNCHANGED <<variant, pc, last_snapshot_time, current_timestamp, current_product,
                   snapshot_events, snapshot_count, crossed_book_count,
                   outliers_filtered, written, failed_attempts, failed_since,
                   written_ticker, ticker_lookup, applied_updates, derived,
                   snapshot_keys>>
    /\ UNCHANGED other_programs

\* ------------------------------------------------------ after the for loop
\* Basic builder: "Process any final pending snapshot batch".  The GPU
\* builder goes straight on to write snapshots_list.
EndOfInput ==
    /\ pc = "loop"
    /\ pc' = "done"
    /\ event' = NoEvent
    /\ LET flush   == variant = "basic" /\ snapshot_events # <<>>
                      /\ current_product # NoProduct
           applied == [orderbooks EXCEPT ![current_product] =
                           ApplySnapshot(variant, @, snapshot_events)]
           r       == GetFeatures(variant, applied[current_product])
           ticker_data == TickerGet(ticker_lookup, current_timestamp, current_product)
           wrote   == flush /\ Wrote(r.features, ticker_data)
       IN  /\ orderbooks' =
                  IF flush THEN [applied EXCEPT ![current_product] = r.book]
                  ELSE orderbooks
           /\ written' =
                  IF wrote
                  THEN Append(written, Row(current_timestamp, current_product, r.features))
                  ELSE written
           /\ written_ticker' =
                  IF wrote THEN Append(written_ticker, ticker_data) ELSE written_ticker
           /\ snapshot_count' = IF wrote THEN snapshot_count + 1 ELSE snapshot_count
           /\ derived' =
                  IF wrote THEN Derived(variant, applied[current_product], r.features)
                  ELSE derived
           /\ attempt' =
                  IF flush
                  THEN Attempt("final", current_product, current_timestamp, r.features.ok)
                  ELSE NoAttempt
           /\ closed' =
                  IF flush
                  THEN Close("eof", current_product, current_timestamp, snapshot_events)
                  ELSE NoClose
           /\ failed_attempts' =
                  IF flush /\ ~r.features.ok THEN failed_attempts + 1 ELSE failed_attempts
    /\ shadow' = IF shadow.on THEN AfterLoop(variant, shadow) ELSE shadow
    /\ UNCHANGED <<variant, last_snapshot_time, current_timestamp, current_product,
                   snapshot_events, event_type_counts, crossed_book_count,
                   outliers_filtered, last_ts, failed_since, ticker_lookup, idx,
                   applied_updates, snapshot_keys>>
    /\ UNCHANGED other_programs

\* ------------------------------------------------------------ specification
\* The batch being accumulated has room for one more row of key (t, p).
BatchRoom(t, p) ==
    (current_timestamp = t /\ current_product = p) => Len(snapshot_events) < MaxBatch

\* Runs over two products, at most MaxEvents rows.
Next ==
    \/ \E t \in Times, p \in Products, l \in Levels, q \in Qtys :
           /\ Consumed < MaxEvents
           /\ BatchRoom(t, p)
           /\ SnapshotEvent(t, p, l[1], l[2], q)
    \/ \E t \in Times, p \in Products, l \in Levels, q \in Qtys :
           /\ Consumed < MaxEvents
           /\ UpdateEvent(t, p, l[1], l[2], q)
    \/ \E t \in Times, p \in Products :
           /\ Consumed < MaxEvents
           /\ OtherEvent(t, p)
    \/ EndOfInput

Spec == Init /\ [][Next]_vars

\* Longer runs over the single product X, at most MaxEventsOne rows.  The
\* snapshot rows carry quantity 1 (batches with rows of quantity 0 are the
\* runs of Spec); the updates carry both quantities, so levels are removed.
NextOne ==
    \/ \E t \in TimesOne, l \in Levels :
           /\ Consumed < MaxEventsOne
           /\ BatchRoom(t, "X")
           /\ SnapshotEvent(t, "X", l[1], l[2], 1)
    \/ \E t \in TimesOne, l \in Levels, q \in Qtys :
           /\ Consumed < MaxEventsOne
           /\ UpdateEvent(t, "X", l[1], l[2], q)
    \/ EndOfInput

SpecOne == Init /\ [][NextOne]_vars

\* One snapshot batch for X at t = 0, then one update per second at
\* t = 0, 1, ..., LastTick.
NextTick ==
    \/ \E l \in Levels, q \in Qtys :
           /\ event_type_counts.update = 0
           /\ BatchRoom(0, "X")
           /\ SnapshotEvent(0, "X", l[1], l[2], q)
    \/ \E l \in TickLevels :
           /\ event_type_counts.update <= LastTick
           /\ UpdateEvent(event_type_counts.update, "X", l[1], l[2], 1)
    \/ (event_type_counts.update = LastTick + 1 /\ EndOfInput)

SpecTick == Init /\ [][NextTick]_vars

\* The ticker files of SpecTicker: at most MaxTickers rows.
TickerTables ==
    {LoadTickerData(K) : K \in {S \in SUBSET TickerKeys : Cardinality(S) <= MaxTickers}}

\* A run with a ticker file.
InitTicker ==
    /\ InitLocals
    /\ InitLoop
    /\ ticker_lookup \in TickerTables
    /\ shadow = ShadowOff
    /\ OthersIdle

\* Rows of product X at the timestamps of TimesTicker.
NextTicker ==
    \/ \E t \in TimesTicker, l \in LevelsPair :
           /\ Consumed < MaxEventsTicker
           /\ BatchRoom(t, "X")
           /\ SnapshotEvent(t, "X", l[1], l[2], 1)
    \/ \E t \in TimesTicker, l \in LevelsPair :
           /\ Consumed < MaxEventsTicker
           /\ UpdateEvent(t, "X", l[1], l[2], 1)
    \/ EndOfInput

SpecTicker == InitTicker /\ [][NextTicker]_vars

\* A run whose shadow follows the rows of Observed.
InitPair ==
    /\ InitLocals
    /\ InitLoop
    /\ ticker_lookup = LoadTickerData({})
    /\ shadow = ShadowOn
    /\ OthersIdle

\* Rows of two products, interleaved in every way.
NextPair ==
    \/ \E t \in Times, p \in Products, l \in LevelsPair :
           /\ Consumed < MaxEventsPair
           /\ BatchRoom(t, p)
           /\ SnapshotEvent(t, p, l[1], l[2], 1)
    \/ \E t \in Times, p \in Products, l \in LevelsPair :
           /\ Consumed < MaxEventsPair
           /\ UpdateEvent(t, p, l[1], l[2], 1)
    \/ \E t \in Times, p \in Products :
           /\ Consumed < MaxEventsPair
           /\ OtherEvent(t, p)
    \/ EndOfInput

SpecPair == InitPair /\ [][NextPair]_vars

\* Rows of product X, some of them malformed.
NextMalformed ==
    \/ \E t \in TimesOne, l \in LevelsMalformed, q \in QtysMalformed :
           /\ Consumed < MaxEventsMalformed
           /\ BatchRoom(t, "X")
           /\ SnapshotEvent(t, "X", l[1], l[2], q)
    \/ \E t \in TimesOne, l \in LevelsMalformed, q \in QtysMalformed :
           /\ Consumed < MaxEventsMalformed
           /\ UpdateEvent(t, "X", l[1], l[2], q)
    \/ EndOfInput

SpecMalformed == Init /\ [][NextMalformed]_vars

\* The ladders over PricesRebuild with quantities 1..MaxQty.
LaddersRebuild ==
    UNION {[S -> 1..MaxQty] : S \in SUBSET PricesRebuild}

\* The batches of at most MaxBatch rows over PricesRebuild, quantities
\* 0..MaxQty.
BatchesRebuild ==
    LET rows == [side : {"bid", "offer"}, price_level : PricesRebuild,
                 new_quantity : 0..MaxQty]
    IN  UNION {[1..n -> rows] : n \in 0..MaxBatch}

\* Any book of product X and any batch for it, about to be applied.
InitRebuild ==
    /\ InitLocals
    /\ pc = "batch"
    /\ current_timestamp = 0
    /\ current_product = "X"
    /\ snapshot_events \in BatchesRebuild
    /\ snapshot_keys = [i \in DOMAIN snapshot_events |-> <<0, "X">>]
    /\ \E bids \in LaddersRebuild, asks \in LaddersRebuild,
          ema_mid \in {None, MidPrice(100, 101)} :
           /\ (variant = "basic") => (ema_mid = None)
           /\ orderbooks = Put(EmptyDict, "X",
                                [bids |-> bids, asks |-> asks, ema_mid |-> ema_mid])
    /\ ticker_lookup = LoadTickerData({})
    /\ shadow = ShadowOff
    /\ OthersIdle

\* orderbooks[current_product].apply_snapshot(events_df), called once and
\* then once more with the same events_df.
Rebuild ==
    /\ pc \in {"batch", "once"}
    /\ pc' = IF pc = "batch" THEN "once" ELSE "twice"
    /\ orderbooks' = [orderbooks EXCEPT ![current_product] =
                          ApplySnapshot(variant, @, snapshot_events)]
    /\ UNCHANGED <<variant, last_snapshot_time, current_timestamp, current_product,
                   snapshot_events, snapshot_count, event_type_counts,
                   crossed_book_count, outliers_filtered, written, last_ts, event,
                   attempt, closed, failed_attempts, failed_since, written_ticker,
                   ticker_lookup, idx, applied_updates, shadow, derived,
                   snapshot_keys>>
    /\ UNCHANGED other_programs

NextRebuild == Rebuild

SpecRebuild == InitRebuild /\ [][NextRebuild]_vars

\* ------------------------------------------------ deep books (SpecDeep)
\* The quantity of the level at price p, in units of 0.5: bids
\* {100: 1.0, 99: 2.0} and asks {101: 1.5, 102: 0.5} are among the books,
\* and so are levels of quantity 0.
QtyAt(p) ==
    CASE p = 100 -> 2
      [] p = 99  -> 4
      [] p = 101 -> 3
      [] p = 102 -> 1
      [] OTHER   -> (p + 1) % 3

\* One side has up to MaxDepth levels, the other at most three.
BidPricesDeep == (101 - MaxDepth)..100
AskPricesDeep == 101..(100 + MaxDepth)

\* The sides of the books of SpecDeep: short ones and ones around the depth
\* of the top-of-book sums.
SidesDeep(prices) ==
    {S \in SUBSET prices : Cardinality(S) <= 2 \/ Cardinality(S) >= MaxDepth - 2}

\* The rows of a snapshot message for one side, by ascending price.
RECURSIVE LadderRows(_, _)
LadderRows(side, S) ==
    IF S = {} THEN <<>>
    ELSE LET p == SetMin(S)
         IN  <<[side |-> side, price_level |-> p, new_quantity |-> QtyAt(p)]>>
                 \o LadderRows(side, S \ {p})

BatchesDeep ==
    {LadderRows("bid", B) \o LadderRows("offer", A) :
         B \in SidesDeep(BidPricesDeep), A \in SUBSET {101, 102, 104}}
    \cup
    {LadderRows("bid", B) \o LadderRows("offer", A) :
         B \in SUBSET {98, 99, 100}, A \in SidesDeep(AskPricesDeep)}

\* The loop has consumed the rows of one snapshot message of product X at
\* t = 0: they are the pending batch, the book of X is still empty.
InitDeep ==
    /\ variant \in {"basic", "gpu"}
    /\ pc = "loop"
    /\ snapshot_events \in BatchesDeep \ {<<>>}
    /\ snapshot_keys = [i \in DOMAIN snapshot_events |-> <<0, "X">>]
    /\ derived = NoDerived
    /\ orderbooks = Put(EmptyDict, "X", NewBook)
    /\ current_timestamp = 0
    /\ current_product = "X"
    /\ last_snapshot_time = [p \in Products |-> None]
    /\ snapshot_count = 0
    /\ event_type_counts = [snapshot |-> Len(snapshot_events), update |-> 0, other |-> 0]
    /\ crossed_book_count = 0
    /\ outliers_filtered = 0
    /\ written = <<>>
    /\ written_ticker = <<>>
    /\ idx = Len(snapshot_events)
    /\ last_ts = [p \in Products |-> 0]
    /\ event = LET row == snapshot_events[Len(snapshot_events)]
               IN  LevelEvent("snapshot", 0, "X", row.side, row.price_level,
                              row.new_quantity)
    /\ attempt = NoAttempt
    /\ closed = NoClose
    /\ failed_attempts = 0
    /\ failed_since = [p \in Products |-> "none"]
    /\ applied_updates = 0
    /\ ticker_lookup = LoadTickerData({})
    /\ shadow = ShadowOff
    /\ OthersIdle

\* (side, price_level, new_quantity) of the update that may follow the batch.
UpdatesDeep ==
    {<<"bid", 100, 0>>, <<"offer", 101, 0>>, <<"bid", 100, 5>>, <<"offer", 110, 5>>}

\* The batch is closed by a snapshot row of a later timestamp, by an update
\* of the same timestamp, or by the end of the input.
NextDeep ==
    \/ (closed = NoClose /\ SnapshotEvent(10, "X", "bid", 100, 2))
    \/ \E u \in UpdatesDeep :
           /\ closed = NoClose
           /\ UpdateEvent(0, "X", u[1], u[2], u[3])
    \/ EndOfInput

SpecDeep == InitDeep /\ [][NextDeep]_vars

\* ------------------------------------- globally ordered input (SpecSorted)
\* Timestamps of the rows of SpecSorted: half an interval and a whole
\* interval after the first.
TimesSorted == {0, 5, 10}

\* Rows of two products whose timestamps never decrease along the file.
NextSorted ==
    \/ \E t \in TimesSorted, p \in Products, l \in LevelsPair :
           /\ Consumed < MaxEventsSorted
           /\ \A o \in Products : t >= last_ts[o]
           /\ BatchRoom(t, p)
           /\ SnapshotEvent(t, p, l[1], l[2], 1)
    \/ \E t \in TimesSorted, p \in Products, l \in LevelsPair :
           /\ Consumed < MaxEventsSorted
           /\ \A o \in Products : t >= last_ts[o]
           /\ UpdateEvent(t, p, l[1], l[2], 1)
    \/ EndOfInput

SpecSorted == Init /\ [][NextSorted]_vars

\* ===================================== FeatureEngineer (feature_engineer.py)
\* (side, price_level) of the entries of event['updates']: a healthy pair
\* and a bid that crosses the offer.
LevelsParse == {<<"bid", 100>>, <<"bid", 101>>, <<"offer", 101>>}

\* The entries of event['updates'].
UpdatesParse ==
    [side : {l[1] : l \in LevelsParse}, price_level : {l[2] : l \in LevelsParse},
     new_quantity : Qtys] \ [side : {"offer"}, price_level : {100}, new_quantity : Qtys]

\* The lists event['updates'] of at most MaxUpdates entries.
UpdateListsParse == UNION {[1..n -> UpdatesParse] : n \in 0..MaxUpdates}

\* orderbook[product_id] of the defaultdict
FeatureEngineer_book(books, product_id) ==
    IF product_id \in DOMAIN books THEN books[product_id]
    ELSE [bids |-> EmptyDict, asks |-> EmptyDict]

\* The loop "for update in event['updates']" of parse_level2.
RECURSIVE FeatureEngineer_apply_updates(_, _)
FeatureEngineer_apply_updates(book, updates) ==
    IF updates = <<>> THEN book
    ELSE LET update == Head(updates)
             price  == update.price_level
             qty    == update.new_quantity
             nb     == IF qty = 0
                       THEN IF update.side = "bid"
                            THEN [book EXCEPT !.bids = Pop(@, price)]
                            ELSE [book EXCEPT !.asks = Pop(@, price)]
                       ELSE IF update.side = "bid"
                            THEN [book EXCEPT !.bids = Put(@, price, qty)]
                            ELSE [book EXCEPT !.asks = Put(@, price, qty)]
         IN  FeatureEngineer_apply_updates(nb, Tail(updates))

\* sum(qty for price, qty in levels if abs(price - mid) <= threshold), with
\* mid = (best_bid + best_ask) / 2 and threshold = mid * 0.001
DepthNearMid(d, S, best_bid, best_ask) ==
    SumQty(d, {price \in S :
                   1000 * Abs(2 * price - (best_bid + best_ask)) <= best_bid + best_ask})

\* _create_snapshot: None (ok = FALSE) for a one-sided book, the features
\* otherwise; raised stands for the ZeroDivisionError of spread_pct
\* (best_bid = 0) and of order_imbalance (bid_volume + ask_volume = 0).
FeatureEngineer_create_snapshot(timestamp, product_id, book) ==
    LET bids       == TopKeys(DOMAIN book.bids, depth_levels, TRUE)
        asks       == TopKeys(DOMAIN book.asks, depth_levels, FALSE)
        best_bid   == SetMax(bids)
        best_ask   == SetMin(asks)
        bid_volume == SumQty(book.bids, bids)
        ask_volume == SumQty(book.asks, asks)
        spread_pct == Div(100 * (best_ask - best_bid), best_bid)
        imbalance  == Div(bid_volume - ask_volume, bid_volume + ask_volume)
    IN  IF bids = {} \/ asks = {} THEN [ok |-> FALSE, raised |-> FALSE]
        ELSE IF spread_pct.raised \/ imbalance.raised
        THEN [ok |-> FALSE, raised |-> TRUE]
        ELSE [ok |-> TRUE, raised |-> FALSE,
              timestamp |-> timestamp, product_id |-> product_id,
              best_bid |-> best_bid, best_ask |-> best_ask,
              mid_price |-> MidPrice(best_bid, best_ask),
              spread |-> best_ask - best_bid,
              spread_pct |-> spread_pct.value,
              bid_volume_10 |-> bid_volume, ask_volume_10 |-> ask_volume,
              order_imbalance |-> imbalance.value,
              depth_bid |-> DepthNearMid(book.bids, bids, best_bid, best_ask),
              depth_ask |-> DepthNearMid(book.asks, asks, best_bid, best_ask)]

\* An event of type 'update' of a line: its updates are applied to the book
\* of its product, then _create_snapshot is called once.
ParseUpdateEvent(timestamp, product_id, updates) ==
    /\ fe_pc = "loop"
    /\ LET book     == FeatureEngineer_apply_updates(
                           FeatureEngineer_book(orderbook, product_id), updates)
           snapshot == FeatureEngineer_create_snapshot(timestamp, product_id, book)
       IN  /\ orderbook' = Put(orderbook, product_id, book)
           /\ snapshots' = IF snapshot.ok THEN Append(snapshots, snapshot) ELSE snapshots
           /\ fe_pc' = IF snapshot.raised THEN "raised" ELSE "loop"
    /\ fe_event' = [type |-> "update", timestamp |-> timestamp,
                    product_id |-> product_id, updates |-> updates]
    /\ fe_count' = fe_count + 1
    /\ UNCHANGED <<builder_vars, collector_vars, runner_vars>>

\* An event of another type ('snapshot'), or a line without 'events': skipped.
ParseOtherEvent(timestamp, product_id) ==
    /\ fe_pc = "loop"
    /\ fe_event' = [type |-> "other", timestamp |-> timestamp,
                    product_id |-> product_id, updates |-> <<>>]
    /\ fe_count' = fe_count + 1
    /\ UNCHANGED <<orderbook, snapshots, fe_pc>>
    /\ UNCHANGED <<builder_vars, collector_vars, runner_vars>>

\* The file is exhausted: return pd.DataFrame(snapshots).
ParseEndOfFile ==
    /\ fe_pc = "loop"
    /\ fe_pc' = "done"
    /\ fe_event' = NoLine
    /\ UNCHANGED <<orderbook, snapshots, fe_count>>
    /\ UNCHANGED <<builder_vars, collector_vars, runner_vars>>

\* parse_level2 alone: the stage-2 builder is the basic one and stays idle.
InitParse == Init /\ variant = "basic"

\* At most MaxEventsParse events; the timestamp of a line is its number.
NextParse ==
    \/ \E p \in Products, u \in UpdateListsParse :
           /\ fe_count < MaxEventsParse
           /\ ParseUpdateEvent(fe_count, p, u)
    \/ \E p \in Products :
           /\ fe_count < MaxEventsParse
           /\ ParseOtherEvent(fe_count, p)
    \/ ParseEndOfFile

SpecParse == InitParse /\ [][NextParse]_vars

\* ================================ CryptoDataCollector (data_collector.py)
\* A data message is the number it had among the messages of its channel.
Channels == {"ticker", "l2_data"}

\* What on_message can be handed: a message of one of the two data
\* channels, of another channel, or one without 'channel'.
MessageKinds == Channels \cup {"heartbeats", "none"}

\* deque.append on a deque(maxlen=maxlen): a full deque discards the item at
\* its left end.
DequeAppend(buffer, item) ==
    IF Len(buffer) >= maxlen THEN Append(Tail(buffer), item)
    ELSE Append(buffer, item)

Buffer(ch) == IF ch = "ticker" THEN ticker_buffer ELSE level2_buffer

\* Where thread t goes when it leaves the block of channel ch of
\* flush_buffers: on to the level2 block, or out of flush_buffers.
Finished(t) ==
    IF t = "main" THEN At("done", "none") ELSE At("test", "none")

AfterBlock(t, ch) ==
    IF ch = "ticker" THEN At("if", "l2_data") ELSE Finished(t)

\* on_message, called by the thread that runs ws.run_forever.
OnMessage(kind) ==
    /\ ws = "open"
    /\ flusher["main"].step = "idle"
    /\ received' = received + 1
    /\ IF kind = "ticker"
       THEN /\ ticker_buffer' = DequeAppend(ticker_buffer, stats.ticker_count + 1)
            /\ stats' = [stats EXCEPT !.ticker_count = @ + 1]
            /\ UNCHANGED level2_buffer
       ELSE IF kind = "l2_data"
       THEN /\ level2_buffer' = DequeAppend(level2_buffer, stats.level2_count + 1)
            /\ stats' = [stats EXCEPT !.level2_count = @ + 1]
            /\ UNCHANGED ticker_buffer
       ELSE UNCHANGED <<ticker_buffer, level2_buffer, stats>>
    /\ UNCHANGED <<running, ticker_file, level2_file, ws, flusher>>
    /\ UNCHANGED <<builder_vars, fe_vars, runner_vars>>

\* on_close: self.running = False, then the call of flush_buffers begins.
OnClose ==
    /\ ws = "open"
    /\ flusher["main"].step = "idle"
    /\ ws' = "closed"
    /\ running' = FALSE
    /\ flusher' = [flusher EXCEPT !["main"] = At("if", "ticker")]
    /\ UNCHANGED <<ticker_buffer, level2_buffer, stats, ticker_file, level2_file,
                   received>>
    /\ UNCHANGED <<builder_vars, fe_vars, runner_vars>>

\* periodic_flush: time.sleep(30) returns, the call of flush_buffers begins.
PeriodicWake ==
    /\ flusher["periodic"].step = "sleep"
    /\ flusher' = [flusher EXCEPT !["periodic"] = At("if", "ticker")]
    /\ UNCHANGED <<ticker_buffer, level2_buffer, stats, running, ticker_file,
                   level2_file, ws, received>>
    /\ UNCHANGED <<builder_vars, fe_vars, runner_vars>>

\* flush_buffers, thread t: "if self.ticker_buffer:" / "if self.level2_buffer:"
\* and, inside "with open(...)", the test of "while self.ticker_buffer:".
FlushTest(t) ==
    /\ flusher[t].step \in {"if", "while"}
    /\ flusher' = [flusher EXCEPT ![t] =
                       IF Buffer(@.ch) # <<>> THEN At(IF @.step = "if" THEN "while" ELSE "pop", @.ch)
                       ELSE AfterBlock(t, @.ch)]
    /\ UNCHANGED <<ticker_buffer, level2_buffer, stats, running, ticker_file,
                   level2_file, ws, received>>
    /\ UNCHANGED <<builder_vars, fe_vars, runner_vars>>

\* flush_buffers, thread t: popleft().  On an empty deque it raises
\* IndexError, which "except Exception" catches: flush_buffers returns.
FlushPop(t) ==
    /\ flusher[t].step = "pop"
    /\ LET ch == flusher[t].ch
       IN  IF Buffer(ch) = <<>>
           THEN /\ flusher' = [flusher EXCEPT ![t] = Finished(t)]
                /\ UNCHANGED <<ticker_buffer, level2_buffer>>
           ELSE /\ flusher' = [flusher EXCEPT ![t] =
                                   [step |-> "write", ch |-> ch, held |-> Head(Buffer(ch))]]
                /\ IF ch = "ticker"
                   THEN ticker_buffer' = Tail(ticker_buffer) /\ UNCHANGED level2_buffer
                   ELSE level2_buffer' = Tail(level2_buffer) /\ UNCHANGED ticker_buffer
    /\ UNCHANGED <<stats, running, ticker_file, level2_file, ws, received>>
    /\ UNCHANGED <<builder_vars, fe_vars, runner_vars>>

\* flush_buffers, thread t: f.write(... + '\n') of the message popped.
FlushWrite(t) ==
    /\ flusher[t].step = "write"
    /\ IF flusher[t].ch = "ticker"
       THEN ticker_file' = Append(ticker_file, flusher[t].held) /\ UNCHANGED level2_file
       ELSE level2_file' = Append(level2_file, flusher[t].held) /\ UNCHANGED ticker_file
    /\ flusher' = [flusher EXCEPT ![t] = At("while", @.ch)]
    /\ UNCHANGED <<ticker_buffer, level2_buffer, stats, running, ws, received>>
    /\ UNCHANGED <<builder_vars, fe_vars, runner_vars>>

\* periodic_flush: print_stats, then the test of "while self.running:".
PeriodicTest ==
    /\ flusher["periodic"].step = "test"
    /\ flusher' = [flusher EXCEPT !["periodic"] =
                       IF running THEN At("sleep", "none") ELSE At("exited", "none")]
    /\ UNCHANGED <<ticker_buffer, level2_buffer, stats, running, ticker_file,
                   level2_file, ws, received>>
    /\ UNCHANGED <<builder_vars, fe_vars, runner_vars>>

\* on_close has returned, run_forever and start return, the interpreter
\* exits: the daemon thread ends wherever it is.
ProcessExit ==
    /\ flusher["main"].step = "done"
    /\ flusher["periodic"].step \notin {"exited", "killed"}
    /\ flusher' = [flusher EXCEPT !["periodic"] = At("killed", "none")]
    /\ UNCHANGED <<ticker_buffer, level2_buffer, stats, running, ticker_file,
                   level2_file, ws, received>>
    /\ UNCHANGED <<builder_vars, fe_vars, runner_vars>>

\* The collector alone: the stage-2 builder is the basic one and stays idle.
InitCollect == Init /\ variant = "basic"

\* At most MaxMessages messages arrive before the connection closes.
NextCollect ==
    \/ \E kind \in MessageKinds : (received < MaxMessages /\ OnMessage(kind))
    \/ OnClose
    \/ PeriodicWake
    \/ \E t \in Flushers : FlushTest(t)
    \/ \E t \in Flushers : FlushPop(t)
    \/ \E t \in Flushers : FlushWrite(t)
    \/ PeriodicTest
    \/ ProcessExit

SpecCollect == InitCollect /\ [][NextCollect]_vars

\* ============================ run_with_restart (run_collector_24x7.py and
\* scripts/run_collector_24x7.py)
\* Mutant of RestartWait: the cap of 300 seconds is missing.
RestartWait_uncapped(r, n) ==
    IF r = Original THEN 60 * n ELSE 5

\* The sleep before a restart after the n-th counted failure:
\* "wait_time = min(60 * consecutive_failures, 300)" in the original script,
\* "wait_time = 5" in the restructured one.
RestartWait(r, n) ==
    IF r = Original THEN (IF 60 * n < 300 THEN 60 * n ELSE 300) ELSE 5

\* The sleep at the end of "except Exception": time.sleep(60) / time.sleep(5)
ErrorWait(r) == IF r = Original THEN 60 ELSE 5

\* subprocess.Popen succeeds: the runner streams the output of the collector.
RunnerLaunch ==
    /\ runner_pc = "start"
    /\ launches < MaxLaunches
    /\ runner_pc' = "streaming"
    /\ launches' = launches + 1
    /\ runner_event' = "launch"
    /\ UNCHANGED <<runner, consecutive_failures, wait_time, return_code, exits_in_a_row>>
    /\ UNCHANGED <<builder_vars, fe_vars, collector_vars>>

\* Restructured script only: "if not os.path.exists(collector_path): ... break"
RunnerCollectorMissing ==
    /\ runner = Restructured
    /\ runner_pc = "start"
    /\ runner_pc' = "stopped"
    /\ runner_event' = "missing"
    /\ UNCHANGED <<runner, consecutive_failures, wait_time, return_code, exits_in_a_row,
                   launches>>
    /\ UNCHANGED <<builder_vars, fe_vars, collector_vars>>

\* process.wait() returns rc.
CollectorExit(rc) ==
    /\ runner_pc = "streaming"
    /\ return_code' = rc
    /\ runner_event' = "exit"
    /\ exits_in_a_row' = exits_in_a_row + 1
    /\ IF runner = Original /\ rc = 0
       THEN /\ consecutive_failures' = 0
            /\ runner_pc' = "stopped"
            /\ UNCHANGED wait_time
       ELSE /\ consecutive_failures' = consecutive_failures + 1
            /\ IF consecutive_failures' >= max_consecutive_failures
               THEN runner_pc' = "stopped" /\ UNCHANGED wait_time
               ELSE /\ runner_pc' = "sleep_exit"
                    /\ wait_time' = RestartWait(runner, consecutive_failures')
    /\ UNCHANGED <<runner, launches>>
    /\ UNCHANGED <<builder_vars, fe_vars, collector_vars>>

\* An exception other than KeyboardInterrupt inside the try block.
RunnerException ==
    /\ runner_pc \in {"start", "streaming"}
    /\ runner_event' = "exception"
    /\ exits_in_a_row' = 0
    /\ consecutive_failures' = consecutive_failures + 1
    /\ IF consecutive_failures' >= max_consecutive_failures
       THEN runner_pc' = "stopped" /\ UNCHANGED wait_time
       ELSE runner_pc' = "sleep_error" /\ wait_time' = ErrorWait(runner)
    /\ UNCHANGED <<runner, return_code, launches>>
    /\ UNCHANGED <<builder_vars, fe_vars, collector_vars>>

\* time.sleep returns and the loop starts over.  The restructured script
\* sets consecutive_failures = 0 after the sleep that follows an exit.
RunnerWake ==
    /\ runner_pc \in {"sleep_exit", "sleep_error"}
    /\ runner_pc' = "start"
    /\ runner_event' = "wake"
    /\ consecutive_failures' =
           IF runner = Restructured /\ runner_pc = "sleep_exit" THEN 0
           ELSE consecutive_failures
    /\ UNCHANGED <<runner, wait_time, return_code, exits_in_a_row, launches>>
    /\ UNCHANGED <<builder_vars, fe_vars, collector_vars>>

\* KeyboardInterrupt: "process.terminate(); break", or, raised outside the
\* try block or before process is bound, the end of the script.
RunnerInterrupt ==
    /\ runner_pc # "stopped"
    /\ runner_pc' = "stopped"
    /\ runner_event' = "interrupt"
    /\ UNCHANGED <<runner, consecutive_failures, wait_time, return_code, exits_in_a_row,
                   launches>>
    /\ UNCHANGED <<builder_vars, fe_vars, collector_vars>>

\* Either script, the other programs idle.
InitRun ==
    /\ InitLocals
    /\ InitLoop
    /\ variant = "basic"
    /\ ticker_lookup = LoadTickerData({})
    /\ shadow = ShadowOff
    /\ InitFeatureEngineer
    /\ InitCollector
    /\ \E r \in {Original, Restructured} : InitRunner(r)

NextRun ==
    \/ RunnerLaunch
    \/ RunnerCollectorMissing
    \/ \E rc \in ReturnCodes : CollectorExit(rc)
    \/ RunnerException
    \/ RunnerWake
    \/ RunnerInterrupt

SpecRun == InitRun /\ [][NextRun]_vars

\* ================================================================== claims
\* Both sides non-empty and every bid strictly below every ask.
Healthy(book) ==
    /\ DOMAIN book.bids # {}
    /\ DOMAIN book.asks # {}
    /\ \A b \in DOMAIN book.bids, a \in DOMAIN book.asks : b < a

\* The book a batch of rows builds from nothing.
Rebuilt(events) == OrderBook_apply_snapshot(NewBook, events)

\* Every row of the batch has a non-zero quantity.
NonZero(events) == \A i \in DOMAIN events : events[i].new_quantity # 0

\* The row a healthy rebuilt batch is due.
RebuiltRow(c) == Row(c.timestamp, c.product, BookFeatures(Rebuilt(c.events)))

\* C1: a step writes a record if and only if it makes an emission attempt
\* (on any of the three paths) and the book of the attempt's instrument has,
\* at that moment, both sides non-empty and its highest bid strictly below
\* its lowest ask; the record carries that best bid and best ask.  Hence no
\* record is written for a crossed or one-sided book.
C1_EmitIffHealthy ==
    [][ LET n == Len(written') - Len(written)
        IN  /\ n \in {0, 1}
            /\ (n = 1) <=> (attempt'.made /\ Healthy(orderbooks'[attempt'.product]))
            /\ (n = 1) =>
                   LET row == written'[Len(written')]
                       bk  == orderbooks'[attempt'.product]
                   IN  /\ row.product_id = attempt'.product
                       /\ row.timestamp = attempt'.timestamp
                       /\ row.best_bid = SetMax(DOMAIN bk.bids)
                       /\ row.best_ask = SetMin(DOMAIN bk.asks)
                       /\ row.best_bid < row.best_ask
      ]_vars

\* C1 witness: a batch closure of the GPU builder wrote a record.
C1_Witness ==
    /\ variant = "gpu"
    /\ attempt.made /\ attempt.path = "batch" /\ attempt.ok
    /\ Len(written) = 1

\* C2: no price level with quantity 0 is a key of bids or asks.
C2_NoZeroQuantityLevel ==
    \A p \in DOMAIN orderbooks :
        /\ \A k \in DOMAIN orderbooks[p].bids : orderbooks[p].bids[k] # 0
        /\ \A k \in DOMAIN orderbooks[p].asks : orderbooks[p].asks[k] # 0

\* C3: when an update closes a pending batch (of non-zero quantities) whose
\* rebuilt book is healthy,
\* a record for the batch (its timestamp, its instrument, the rebuilt book's
\* features) is written.
C3_UpdateClosureEmits ==
    (closed.by = "update" /\ NonZero(closed.events) /\ Healthy(Rebuilt(closed.events))) =>
        \E i \in DOMAIN written : written[i] = RebuiltRow(closed)

\* C4: a closed batch that leaves a healthy book gets its record although a
\* record of the same instrument was written less than snapshot_interval
\* seconds before the batch's timestamp.
C4_ReconnectBatchEmits ==
    ( /\ closed.by # "none"
      /\ NonZero(closed.events)
      /\ Healthy(Rebuilt(closed.events))
      /\ \E j \in DOMAIN written :
             /\ written[j].product_id = closed.product
             /\ written[j].timestamp < closed.timestamp
             /\ closed.timestamp - written[j].timestamp < snapshot_interval_seconds )
    => \E i \in DOMAIN written : written[i] = RebuiltRow(closed)

\* C5: when the input has ended with a batch (of non-zero quantities)
\* pending, the ladder of its instrument is the one the batch builds, and a
\* record for the batch is written if that book is healthy.
C5_FinalBatchFlushed ==
    (pc = "done" /\ snapshot_events # <<>> /\ NonZero(snapshot_events)) =>
        LET bk == orderbooks[current_product]
            rb == Rebuilt(snapshot_events)
        IN  /\ bk.bids = rb.bids
            /\ bk.asks = rb.asks
            /\ Healthy(rb) =>
                   \E i \in DOMAIN written :
                       written[i] = Row(current_timestamp, current_product, BookFeatures(rb))

\* The timestamps of the written rows.
RowTimes == [i \in DOMAIN written |-> written[i].timestamp]

\* C6: after every applied update an emission is attempted exactly when
\* last_snapshot_time of the instrument is unset or at least
\* snapshot_interval_seconds before the update; and a run of updates at
\* t = 0, 1, ..., 20 in which no attempt failed and no update was filtered
\* has written exactly three records, at t = 0, 10 and 20.
C6_EmitEveryInterval ==
    /\ [][ (event'.event_type = "update" /\ outliers_filtered' = outliers_filtered) =>
               ( (attempt'.made /\ attempt'.path = "update")
                 <=> \/ last_snapshot_time[event'.product_id] = None
                     \/ event'.timestamp - last_snapshot_time[event'.product_id]
                            >= snapshot_interval_seconds )
         ]_vars
    /\ []( ( /\ pc = "done"
             /\ event_type_counts.update = LastTick + 1
             /\ crossed_book_count = 0
             /\ outliers_filtered = 0 )
           => RowTimes = <<0, 10, 20>> )

\* C6 witness: such a run of the GPU builder has ended.
C6_Witness ==
    /\ variant = "gpu"
    /\ pc = "done"
    /\ event_type_counts.update = LastTick + 1
    /\ crossed_book_count = 0
    /\ outliers_filtered = 0
    /\ Len(written) = 3

\* |price - ema_mid| / ema_mid > 0.10, for an ema_mid in fixed point.
FarFromEma(ema_mid, price) ==
    /\ ema_mid # None
    /\ 10 * Abs(price * EmaScale - ema_mid) > ema_mid

\* The books as the outlier test of an update for product_id finds them: the
\* pending batch, if any, has been applied.
BooksAtTest(product_id) ==
    LET obs0 == WithBook(orderbooks, product_id)
    IN  IF snapshot_events # <<>>
        THEN [obs0 EXCEPT ![current_product] = ApplySnapshot(variant, @, snapshot_events)]
        ELSE obs0

\* C7: in the GPU builder an update whose price is more than 10% away from
\* ema_mid of its instrument leaves every book as the outlier test found it
\* (bids, asks and ema_mid; with no batch pending: as they were before the
\* row) and increases outliers_filtered by exactly 1; the counter changes in
\* no other step.
C7_OutlierRejected ==
    [][ LET far == /\ variant = "gpu"
                   /\ event'.event_type = "update"
                   /\ FarFromEma(BooksAtTest(event'.product_id)[event'.product_id].ema_mid,
                                 event'.price_level)
        IN  /\ far => /\ outliers_filtered' = outliers_filtered + 1
                      /\ orderbooks' = BooksAtTest(event'.product_id)
                      /\ snapshot_events = <<>> =>
                             \A p \in DOMAIN orderbooks : orderbooks'[p] = orderbooks[p]
                      /\ written' = written
            /\ ~far => outliers_filtered' = outliers_filtered
      ]_vars

\* C7 witness: with ema_mid = 100.5 an update at price 500 was filtered.
C7_Witness ==
    /\ variant = "gpu"
    /\ event.event_type = "update" /\ event.price_level = 500
    /\ outliers_filtered = 1
    /\ orderbooks[event.product_id].ema_mid = MidPrice(100, 101)
    /\ 500 \notin DOMAIN orderbooks[event.product_id].asks

\* The quantity of the last row of the batch for (side, price).
LastQuantity(events, isBid, price) ==
    LET I == {i \in DOMAIN events :
                  (events[i].side = "bid") = isBid /\ events[i].price_level = price}
    IN  events[SetMax(I)].new_quantity

\* The ladder of one side that a batch stands for: last row wins.
BatchLadder(events, isBid) ==
    [k \in {events[i].price_level : i \in {j \in DOMAIN events :
                                               (events[j].side = "bid") = isBid}}
       |-> LastQuantity(events, isBid, k)]

\* C8: at the emission attempt made for a closed batch (closed by a snapshot
\* row of another key, or by the end of the input) bids and asks of its
\* instrument hold exactly the price levels of the rows of the batch, the
\* last row winning per side and price, and nothing from before the rebuild.
C8_RebuildReplacesLadder ==
    (attempt.made /\ attempt.path \in {"batch", "final"}) =>
        /\ closed.by \in {"snapshot", "eof"}
        /\ closed.product = attempt.product
        /\ closed.timestamp = attempt.timestamp
        /\ orderbooks[attempt.product].bids = BatchLadder(closed.events, TRUE)
        /\ orderbooks[attempt.product].asks = BatchLadder(closed.events, FALSE)

\* C8 witness: the attempt for a batch with two rows for the same level and
\* different quantities.
C8_Witness ==
    /\ attempt.made /\ attempt.path = "batch"
    /\ Len(closed.events) = 2
    /\ closed.events[1].side = closed.events[2].side
    /\ closed.events[1].price_level = closed.events[2].price_level
    /\ closed.events[1].new_quantity # closed.events[2].new_quantity

\* A failed attempt writes nothing and leaves last_snapshot_time alone.
FailedAttemptFrame ==
    (attempt'.made /\ ~attempt'.ok) =>
        /\ written' = written
        /\ last_snapshot_time' = last_snapshot_time

\* C9 as claimed: a failed attempt writes nothing and leaves
\* last_snapshot_time alone, and while no record has been written for the
\* instrument since an attempt failed (on any path), every applied update of
\* the instrument attempts emission again.
C9_RetryAfterFailedAttempt ==
    [][ /\ FailedAttemptFrame
        /\ ( /\ event'.event_type = "update"
             /\ outliers_filtered' = outliers_filtered
             /\ failed_since[event'.product_id] # "none" )
           => (attempt'.made /\ attempt'.path = "update")
      ]_vars

\* C9 amended: a failed attempt writes nothing and leaves last_snapshot_time
\* alone; while no record has been written for the instrument since an
\* update-triggered attempt failed, every applied update of the instrument
\* attempts emission again.
C9_RetryAfterFailedUpdateAttempt ==
    [][ /\ FailedAttemptFrame
        /\ ( /\ event'.event_type = "update"
             /\ outliers_filtered' = outliers_filtered
             /\ failed_since[event'.product_id] = "update" )
           => (attempt'.made /\ attempt'.path = "update")
      ]_vars

\* C9 witness: the first record of the run is written by an update-triggered
\* attempt after an update-triggered attempt had failed.
C9_Witness ==
    /\ attempt.made /\ attempt.path = "update" /\ attempt.ok
    /\ crossed_book_count >= 1
    /\ Len(written) = 1

\* C10: the crossed/empty-skip counter equals the number of emission
\* attempts that found no features.
C10_SkipCounterCountsFailures ==
    crossed_book_count = failed_attempts

\* The offsets of the exact-then-+-5s search, in the order they are tried.
SearchOffsets == <<0, 1, -1, 2, -2, 3, -3, 4, -4, 5, -5>>

\* The ticker fields the exact-then-+-5s search finds for (t, p): those of
\* the first of the 11 timestamps that has a ticker row of p, none otherwise.
NearestTicker(lookup, t, p) ==
    LET hits == {i \in DOMAIN SearchOffsets : <<t + SearchOffsets[i], p>> \in DOMAIN lookup}
    IN  IF hits = {} THEN NoTickerData
        ELSE [ticker_price |-> lookup[<<t + SearchOffsets[SetMin(hits)], p>>]]

\* C11: every written record, whichever path wrote it, carries the ticker
\* fields that the exact-then-+-5s search finds for its timestamp and its
\* instrument.
C11_EveryRowCarriesNearestTicker ==
    \A i \in DOMAIN written :
        written_ticker[i] =
            NearestTicker(ticker_lookup, written[i].timestamp, written[i].product_id)

\* C12: the record written by an update-triggered attempt at (t, X) carries
\* the ticker stored at exactly t for X if there is one; otherwise that of
\* the first hit among t+1, t-1, t+2, t-2, ..., t+5, t-5; and no ticker
\* fields only if none of the 11 timestamps has a ticker of X.
C12_TickerLookupOrder ==
    [][ (attempt'.made /\ attempt'.path = "update" /\ attempt'.ok) =>
            /\ Len(written_ticker') = Len(written_ticker) + 1
            /\ written_ticker'[Len(written_ticker')] =
                   NearestTicker(ticker_lookup, attempt'.timestamp, attempt'.product)
      ]_vars

\* C12 witness: with ticker rows of X at t+1 and t-1 only, an update at
\* t = 103 wrote a record that carries the ticker of t+1.
C12_Witness ==
    /\ DOMAIN ticker_lookup = {<<102, "X">>, <<104, "X">>}
    /\ attempt.made /\ attempt.path = "update" /\ attempt.ok
    /\ attempt.timestamp = 103
    /\ written_ticker[Len(written_ticker)] = [ticker_price |-> TickerPrice(104, "X")]

\* C13: an emission attempt on a healthy book writes its record, counts it
\* and (on the batch and update paths) sets last_snapshot_time of the
\* instrument to the record's timestamp, whether or not the ticker lookup
\* found anything; a record whose lookup found nothing has empty ticker
\* fields.
C13_MissingTickerDoesNotBlock ==
    [][ (attempt'.made /\ Healthy(orderbooks'[attempt'.product])) =>
            /\ Len(written') = Len(written) + 1
            /\ written'[Len(written')].timestamp = attempt'.timestamp
            /\ written'[Len(written')].product_id = attempt'.product
            /\ snapshot_count' = snapshot_count + 1
            /\ attempt'.path \in {"batch", "update"} =>
                   last_snapshot_time'[attempt'.product] = attempt'.timestamp
            /\ Len(written_ticker') = Len(written')
            /\ (\A k \in DOMAIN ticker_lookup :
                    \/ k[2] # attempt'.product
                    \/ Abs(k[1] - attempt'.timestamp) > ticker_tolerance_seconds)
                   => written_ticker'[Len(written')] = NoTickerData
      ]_vars

\* C13 witness: an update-triggered attempt at t = 103 wrote a record with
\* empty ticker fields although the ticker file has rows: one of another
\* instrument at 103 and one of X more than 5 s away.
C13_Witness ==
    /\ DOMAIN ticker_lookup = {<<103, "Y">>, <<97, "X">>}
    /\ attempt.made /\ attempt.path = "update" /\ attempt.ok
    /\ attempt.timestamp = 103
    /\ Len(written) = 1 /\ snapshot_count = 1
    /\ last_snapshot_time["X"] = 103
    /\ written_ticker[1] = NoTickerData

\* The mid price of a healthy book, in fixed point.
BookMid(book) == MidPrice(SetMax(DOMAIN book.bids), SetMin(DOMAIN book.asks))

\* C14: in the basic builder, when the last step wrote a record for an
\* instrument on the update path (so the mid of its book is the reference
\* mid), an update of that instrument whose price is more than 10% of that
\* mid away from it leaves bids and asks of the instrument unchanged.
C14_ReferencePriceRejects ==
    [][ ( /\ variant = "basic"
          /\ attempt.made /\ attempt.path = "update" /\ attempt.ok
          /\ event'.event_type = "update"
          /\ event'.product_id = attempt.product
          /\ 10 * Abs(event'.price_level * EmaScale - BookMid(orderbooks[attempt.product]))
                 > BookMid(orderbooks[attempt.product]) )
        => /\ orderbooks'[attempt.product].bids = orderbooks[attempt.product].bids
           /\ orderbooks'[attempt.product].asks = orderbooks[attempt.product].asks
      ]_vars

\* C15: in the GPU builder, when an update closes a pending batch (of
\* non-zero quantities) of its own instrument that rebuilds a healthy book
\* with mid m, and the price of the update is within 10% of m, the update is
\* not rejected as an outlier, whatever ema_mid was before the rebuild.
C15_SeedThenFilter ==
    [][ ( /\ variant = "gpu"
          /\ snapshot_events # <<>>
          /\ NonZero(snapshot_events)
          /\ Healthy(Rebuilt(snapshot_events))
          /\ event'.event_type = "update"
          /\ event'.product_id = current_product
          /\ 10 * Abs(event'.price_level * EmaScale - BookMid(Rebuilt(snapshot_events)))
                 <= BookMid(Rebuilt(snapshot_events)) )
        => outliers_filtered' = outliers_filtered
      ]_vars

\* The ema after a mid was observed: the mid if the ema was unset, else
\* 0.05 * mid + 0.95 * ema (fixed point, rounded down).
EmaAfter(ema_mid, mid) ==
    IF ema_mid = None THEN mid ELSE (5 * mid + 95 * ema_mid) \div 100

\* C16: over any step, ema_mid of every book of the GPU builder is its old
\* value, moved by the rule (mid if unset, else 0.05 * mid + 0.95 * ema_mid)
\* once for the mid of the rebuilt ladder if the step applied a batch to the
\* book and both sides were non-empty afterwards, and then once for the mid
\* of the book if the step extracted features from it successfully; applied
\* or filtered updates and failed extractions do not move it.  The basic
\* class has no ema_mid.
C16_EmaUpdateRule ==
    [][ \A p \in DOMAIN orderbooks' :
            LET e0 == IF p \in DOMAIN orderbooks THEN orderbooks[p].ema_mid ELSE None
                rb == Rebuilt(closed'.events)
                e1 == IF /\ closed'.by # "none"
                         /\ closed'.product = p
                         /\ DOMAIN rb.bids # {}
                         /\ DOMAIN rb.asks # {}
                      THEN EmaAfter(e0, BookMid(rb))
                      ELSE e0
                e2 == IF attempt'.made /\ attempt'.ok /\ attempt'.product = p
                      THEN EmaAfter(e1, BookMid(orderbooks'[p]))
                      ELSE e1
            IN  orderbooks'[p].ema_mid = IF variant = "gpu" THEN e2 ELSE None
      ]_vars

\* C16 witness: a batch moved an ema_mid that was set to a value that is
\* neither the old one nor the mid of the rebuilt book.
C16_Witness ==
    /\ variant = "gpu"
    /\ closed.by # "none"
    /\ Healthy(orderbooks[closed.product])
    /\ orderbooks[closed.product].ema_mid = EmaAfter(MidPrice(100, 500), MidPrice(100, 101))

\* The rows of a sequence of written rows that belong to product p.
RowsOf(rows, p) == SelectSeq(rows, LAMBDA r : r.product_id = p)

\* C17: when a run has ended, the records written for product Observed, its
\* ladder and its last_snapshot_time are those of the run over the rows of
\* Observed alone (a stream with the same rows of Observed and no others).
C17_InstrumentsDoNotInterfere ==
    (pc = "done" /\ shadow.on) =>
        LET mine == WithBook(orderbooks, Observed)[Observed]
            solo == WithBook(shadow.orderbooks, Observed)[Observed]
        IN  /\ RowsOf(written, Observed) = shadow.written
            /\ mine.bids = solo.bids
            /\ mine.asks = solo.asks
            /\ last_snapshot_time[Observed] = shadow.last_snapshot_time[Observed]

\* A row whose side is neither bid nor offer/ask, or whose quantity is
\* negative.
MalformedRow(r) ==
    r.side \notin {"bid", "offer", "ask"} \/ r.new_quantity < 0

\* The rows of a batch that are not malformed.
WellFormed(events) == SelectSeq(events, LAMBDA r : ~MalformedRow(r))

\* C18: a malformed update (no batch pending) leaves bids and asks of every
\* instrument as they were, and the ladder rebuilt from a batch closed by a
\* snapshot row or by the end of the input is the one its well-formed rows
\* build: malformed rows are skipped.
C18_MalformedEventSkipped ==
    [][ /\ ( /\ event'.event_type = "update"
              /\ MalformedRow(event')
              /\ snapshot_events = <<>> )
            => \A p \in DOMAIN orderbooks' :
                   /\ orderbooks'[p].bids = WithBook(orderbooks, p)[p].bids
                   /\ orderbooks'[p].asks = WithBook(orderbooks, p)[p].asks
        /\ closed'.by \in {"snapshot", "eof"}
            => /\ orderbooks'[closed'.product].bids
                      = BatchLadder(WellFormed(closed'.events), TRUE)
               /\ orderbooks'[closed'.product].asks
                      = BatchLadder(WellFormed(closed'.events), FALSE)
      ]_vars

\* C19: at every point of a run the per-type counts sum to the number of
\* rows consumed, snapshot_count is the number of rows handed to the output,
\* and the updates consumed are those filtered plus those applied; every
\* update step counts its row as exactly one of the two: filtered, and every
\* book is as the outlier test found it, or applied, and the ladder of its
\* instrument is the one the update makes of it.
C19_CountersConsistent ==
    /\ []( /\ event_type_counts.snapshot + event_type_counts.update
                  + event_type_counts.other = idx
            /\ snapshot_count = Len(written)
            /\ event_type_counts.update = outliers_filtered + applied_updates )
    /\ [][ (event'.event_type = "update") =>
               LET p        == event'.product_id
                   before   == BooksAtTest(p)
                   filtered == outliers_filtered' - outliers_filtered
                   applied  == applied_updates' - applied_updates
                   made     == SetLevel(before[p], event'.side, event'.price_level,
                                        event'.new_quantity)
               IN  /\ filtered \in {0, 1}
                   /\ applied \in {0, 1}
                   /\ filtered + applied = 1
                   /\ filtered = 1 => orderbooks' = before
                   /\ applied = 1 => /\ orderbooks'[p].bids = made.bids
                                     /\ orderbooks'[p].asks = made.asks
         ]_vars

\* C19 witness: a run of the GPU builder has applied two updates, written a
\* record and filtered a third update.
C19_Witness ==
    /\ variant = "gpu"
    /\ event_type_counts.update = 3
    /\ applied_updates = 2
    /\ outliers_filtered = 1
    /\ snapshot_count = 1

\* C20: applying the batch that has just been applied to a book once more
\* leaves bids and asks of the book as they are, whatever the book was
\* before the first application.
C20_RebuildIdempotent ==
    [][ (pc = "once" /\ pc' = "twice") =>
            /\ orderbooks'[current_product].bids = orderbooks[current_product].bids
            /\ orderbooks'[current_product].asks = orderbooks[current_product].asks
      ]_vars

\* C20 witness: a batch of two rows has been applied twice to a book of the
\* GPU class, and the ladder is the one the batch stands for.
C20_Witness ==
    /\ pc = "twice"
    /\ variant = "gpu"
    /\ Len(snapshot_events) = 2
    /\ orderbooks["X"].bids = BatchLadder(snapshot_events, TRUE)
    /\ orderbooks["X"].asks = BatchLadder(snapshot_events, FALSE)
    /\ Healthy(orderbooks["X"])

\* sum of the quantities of the levels S of a ladder
RECURSIVE LevelSum(_, _)
LevelSum(ladder, S) ==
    IF S = {} THEN 0
    ELSE LET p == CHOOSE x \in S : TRUE
         IN  ladder[p] + LevelSum(ladder, S \ {p})

\* The n highest (best) bid prices and the n lowest (best) ask prices.
HighestBids(book, n) ==
    {p \in DOMAIN book.bids : Cardinality({q \in DOMAIN book.bids : q > p}) < n}

LowestAsks(book, n) ==
    {p \in DOMAIN book.asks : Cardinality({q \in DOMAIN book.asks : q < p}) < n}

\* bids {100: 1.0, 99: 2.0}, asks {101: 1.5, 102: 0.5}, in units of 0.5
ExampleBatch ==
    LadderRows("bid", {99, 100}) \o LadderRows("offer", {101, 102})

\* C21: for a healthy book the result of get_snapshot_features has best_bid
\* = the highest bid price, best_ask = the lowest ask price, bid_volume =
\* the sum of the quantities of the 10 highest bid levels and ask_volume =
\* the sum of the quantities of the 10 lowest ask levels.  Example: after a
\* rebuild from bids {100: 1.0, 99: 2.0}, asks {101: 1.5, 102: 0.5} the
\* result is best_bid 100, best_ask 101, bid_volume 3.0, ask_volume 2.0, and
\* after apply_update(bid, 100, 0) the next result has best_bid 99.
C21_FeaturesOfHealthyBook ==
    /\ (attempt.made /\ Healthy(orderbooks[attempt.product])) =>
           LET book == orderbooks[attempt.product]
               row  == written[Len(written)]
           IN  /\ attempt.ok
               /\ Len(written) > 0
               /\ row.best_bid \in DOMAIN book.bids
               /\ \A p \in DOMAIN book.bids : p <= row.best_bid
               /\ row.best_ask \in DOMAIN book.asks
               /\ \A p \in DOMAIN book.asks : row.best_ask <= p
               /\ row.bid_volume_10 = LevelSum(book.bids, HighestBids(book, 10))
               /\ row.ask_volume_10 = LevelSum(book.asks, LowestAsks(book, 10))
    /\ (closed.events = ExampleBatch /\ closed.by \in {"snapshot", "eof"}) =>
           /\ Len(written) = 1
           /\ written[1].best_bid = 100 /\ written[1].best_ask = 101
           /\ written[1].bid_volume_10 = 6 /\ written[1].ask_volume_10 = 4
    /\ (closed.events = ExampleBatch /\ closed.by = "update"
            /\ event.side = "bid" /\ event.price_level = 100
            /\ event.new_quantity = 0) =>
           /\ Len(written) = 1
           /\ written[1].best_bid = 99 /\ written[1].best_ask = 101
           /\ written[1].bid_volume_10 = 4

\* A result for a book with more than 10 bid levels, lowest one left out.
C21_Witness ==
    /\ attempt.made /\ attempt.ok
    /\ Cardinality(DOMAIN orderbooks[attempt.product].bids) > 10
    /\ written[Len(written)].bid_volume_10
           < LevelSum(orderbooks[attempt.product].bids,
                      DOMAIN orderbooks[attempt.product].bids)

\* C22: an update that is not filtered changes at most the level (side,
\* price) of the book of its instrument: with quantity 0 the level is absent
\* afterwards (removed if present, nothing happens if absent), with any
\* other quantity the level holds that quantity; every other level of that
\* side, the whole opposite side and the ladders of the other instruments
\* are as the update found them.
C22_UpdateFrame ==
    [][ (event'.event_type = "update" /\ applied_updates' = applied_updates + 1) =>
            LET p      == event'.product_id
                before == BooksAtTest(p)
                isBid  == event'.side = "bid"
                old    == IF isBid THEN before[p].bids ELSE before[p].asks
                new    == IF isBid THEN orderbooks'[p].bids ELSE orderbooks'[p].asks
                price  == event'.price_level
            IN  /\ DOMAIN new \ {price} = DOMAIN old \ {price}
                /\ \A k \in DOMAIN new \ {price} : new[k] = old[k]
                /\ (event'.new_quantity = 0) => price \notin DOMAIN new
                /\ (event'.new_quantity # 0) =>
                       (price \in DOMAIN new /\ new[price] = event'.new_quantity)
                /\ IF isBid THEN orderbooks'[p].asks = before[p].asks
                   ELSE orderbooks'[p].bids = before[p].bids
                /\ \A o \in DOMAIN before \ {p} :
                       /\ orderbooks'[o].bids = before[o].bids
                       /\ orderbooks'[o].asks = before[o].asks
      ]_vars

\* C22 witness: an update with quantity 0 has removed a level that the batch
\* it closed had put into the book, the other level of that side staying.
C22_Witness ==
    /\ event.event_type = "update" /\ event.new_quantity = 0
    /\ applied_updates = 1
    /\ closed.by = "update" /\ closed.product = event.product_id
    /\ Len(closed.events) = 2
    /\ \E i \in DOMAIN closed.events :
           /\ closed.events[i].side = event.side
           /\ closed.events[i].price_level = event.price_level
           /\ closed.events[i].new_quantity = 1
    /\ event.side = "bid"
    /\ DOMAIN orderbooks[event.product_id].bids = {101}
    /\ event.price_level = 100

\* C23: an update rejected as an outlier (GPU builder: its price is more
\* than 10% away from ema_mid of its instrument) is followed by no emission
\* attempt: the step writes no record and changes neither last_snapshot_time
\* nor the crossed/empty skip counter, whatever last_snapshot_time is; an
\* update step attempts emission only for an update that was applied.
C23_RejectedUpdateNoAttempt ==
    [][ (event'.event_type = "update") =>
            LET p        == event'.product_id
                book     == BooksAtTest(p)[p]
                rejected == variant = "gpu" /\ FarFromEma(book.ema_mid, event'.price_level)
            IN  /\ rejected =>
                       /\ attempt' = NoAttempt
                       /\ written' = written
                       /\ last_snapshot_time' = last_snapshot_time
                       /\ crossed_book_count' = crossed_book_count
                       /\ failed_attempts' = failed_attempts
                /\ attempt'.made => applied_updates' = applied_updates + 1
      ]_vars

\* C23 witness: an update was rejected while last_snapshot_time of its
\* instrument was still unset, so that an emission would have been due.
C23_Witness ==
    /\ variant = "gpu"
    /\ event.event_type = "update"
    /\ FarFromEma(orderbooks[event.product_id].ema_mid, event.price_level)
    /\ outliers_filtered = 1
    /\ last_snapshot_time[event.product_id] = None
    /\ attempt = NoAttempt
    /\ written = <<>>

\* C24: for every record the GPU builder emits the derived columns are
\* well defined and bounded: no division by zero is made (with a total
\* top-10 volume of 0, microprice is the mid price and order_imbalance is
\* 0), best_bid <= microprice <= best_ask and -1 <= order_imbalance <= 1.
\* The mid price is (best_bid + best_ask) / 2 to within one unit of the
\* fixed-point resolution.
C24_DerivedFeaturesBounded ==
    (variant = "gpu" /\ attempt.made /\ attempt.ok) =>
        LET row == written[Len(written)]
        IN  /\ ~derived.raised
            /\ row.best_bid * EmaScale <= derived.microprice
            /\ derived.microprice <= row.best_ask * EmaScale
            /\ -EmaScale <= derived.order_imbalance
            /\ derived.order_imbalance <= EmaScale
            /\ (row.bid_volume_10 + row.ask_volume_10 = 0) =>
                   /\ derived.microprice = derived.mid_price
                   /\ 2 * derived.microprice <= (row.best_bid + row.best_ask) * EmaScale
                   /\ 2 * derived.microprice > (row.best_bid + row.best_ask) * EmaScale - 2
                   /\ derived.order_imbalance = 0

\* C24 witness: a record was emitted for a book whose levels all have
\* quantity 0.
C24_Witness ==
    /\ variant = "gpu" /\ attempt.made /\ attempt.ok
    /\ written[Len(written)].bid_volume_10 + written[Len(written)].ask_volume_10 = 0
    /\ derived.microprice = MidPrice(written[Len(written)].best_bid,
                                     written[Len(written)].best_ask)

\* A record with unequal volumes: microprice strictly between the two best
\* prices and off the mid price.
C24_WitnessWeighted ==
    /\ variant = "gpu" /\ attempt.made /\ attempt.ok
    /\ written[Len(written)].bid_volume_10 > written[Len(written)].ask_volume_10
    /\ written[Len(written)].ask_volume_10 > 0
    /\ derived.microprice > derived.mid_price
    /\ derived.order_imbalance > 0

\* C25: whenever the pending snapshot buffer is non-empty, current_timestamp
\* and current_product are set, a book exists for current_product and every
\* buffered entry was made from a snapshot row of exactly that (timestamp,
\* product) key; after every update row the buffer is empty (it is emptied
\* before the update is applied to a book).
C25_BufferKey ==
    /\ []( /\ Len(snapshot_keys) = Len(snapshot_events)
           /\ (snapshot_events # <<>>) =>
                  /\ current_timestamp # None
                  /\ current_product # NoProduct
                  /\ current_product \in DOMAIN orderbooks
                  /\ \A i \in DOMAIN snapshot_keys :
                         snapshot_keys[i] = <<current_timestamp, current_product>> )
    /\ [][ (event'.event_type = "update") => snapshot_events' = <<>> ]_vars

\* C25 witness: the GPU builder keeps the key of a batch an update closed; a
\* snapshot row has been buffered after that update.
C25_Witness ==
    /\ variant = "gpu"
    /\ event_type_counts.update = 1
    /\ event.event_type = "snapshot"
    /\ Len(snapshot_events) = 1
    /\ closed = NoClose
    /\ event_type_counts.snapshot = 2
    /\ applied_updates = 1

\* The timestamp of the last record of written for product p, None if there
\* is none.
LastRowTime(rows, p) ==
    LET I == {i \in DOMAIN rows : rows[i].product_id = p}
    IN  IF I = {} THEN None ELSE rows[SetMax(I)].timestamp

\* C26: with input rows in non-decreasing timestamp order the records are
\* written in non-decreasing timestamp order (the record of a closed batch
\* carries the timestamp of the batch, not that of the row closing it), and
\* a record triggered by an update is at least snapshot_interval_seconds
\* after the previous record of its instrument.
C26_OutputOrdered ==
    /\ [](\A i \in DOMAIN written : \A j \in DOMAIN written :
              i < j => written[i].timestamp <= written[j].timestamp)
    /\ [][ (attempt'.made /\ attempt'.path = "batch" /\ attempt'.ok) =>
               /\ written'[Len(written')].timestamp = closed'.timestamp
               /\ closed'.timestamp = current_timestamp ]_vars
    /\ [][ (attempt'.made /\ attempt'.path = "update" /\ attempt'.ok) =>
               LET prev == LastRowTime(written, attempt'.product)
               IN  /\ written'[Len(written')].timestamp = event'.timestamp
                   /\ prev # None =>
                          event'.timestamp - prev >= snapshot_interval_seconds ]_vars

\* C26 witness: a batch of timestamp 0 was closed by a row of timestamp 5
\* and its record written, then an update of timestamp 10 wrote the next
\* record of that instrument.
C26_Witness ==
    /\ Len(written) = 2
    /\ written[1].timestamp = 0 /\ written[2].timestamp = 10
    /\ written[1].product_id = written[2].product_id
    /\ attempt.made /\ attempt.path = "update"
    /\ \E p \in Products : last_ts[p] = 5

\* C27: parse_level2 records a snapshot for an update event only when the
\* book of its instrument has bids and asks and best_bid < best_ask: never
\* for a crossed or a one-sided book.
C27_SnapshotOnlyWhenHealthy ==
    [][ (Len(snapshots') > Len(snapshots)) =>
            /\ fe_event'.type = "update"
            /\ Healthy(orderbook'[fe_event'.product_id]) ]_vars

\* What the code does: a snapshot is recorded exactly when neither side of
\* the book is empty.
C27_SnapshotWhenTwoSided ==
    [][ (fe_event'.type = "update") =>
            LET book == orderbook'[fe_event'.product_id]
            IN  (Len(snapshots') > Len(snapshots))
                    <=> (DOMAIN book.bids # {} /\ DOMAIN book.asks # {}) ]_vars

\* A snapshot was recorded for a crossed book.
C27_CrossedRecorded ==
    /\ Len(snapshots) > 0
    /\ snapshots[Len(snapshots)].best_bid >= snapshots[Len(snapshots)].best_ask

\* How often message n is in the lines of a file.
Occurrences(file, n) == Cardinality({i \in DOMAIN file : file[i] = n})

\* C28: the collector loses no data message: once the connection has closed
\* and the flush of on_close has run, every ticker message counted in
\* stats.ticker_count is in the ticker file exactly once and every l2_data
\* message counted in stats.level2_count is in the level2 file exactly once,
\* however many messages arrived between two periodic flushes and however
\* the periodic flush thread and the flush of on_close interleaved.
C28_NoDataMessageLost ==
    (flusher["main"].step = "done") =>
        /\ \A n \in 1..stats.ticker_count : Occurrences(ticker_file, n) = 1
        /\ \A n \in 1..stats.level2_count : Occurrences(level2_file, n) = 1

\* No message is ever written twice, and none that was not counted.
C28_NeverWrittenTwice ==
    /\ \A n \in 1..stats.ticker_count : Occurrences(ticker_file, n) <= 1
    /\ \A n \in 1..stats.level2_count : Occurrences(level2_file, n) <= 1
    /\ \A i \in DOMAIN ticker_file : ticker_file[i] \in 1..stats.ticker_count
    /\ \A i \in DOMAIN level2_file : level2_file[i] \in 1..stats.level2_count

\* More than maxlen ticker messages arrived with no flush in between: the
\* first one is in no file and in no buffer when everything has stopped.
C28_OverflowLoss ==
    /\ flusher["main"].step = "done"
    /\ flusher["periodic"].step = "sleep"
    /\ stats.ticker_count = maxlen + 1
    /\ Occurrences(ticker_file, 1) = 0
    /\ Len(ticker_file) = maxlen
    /\ ticker_buffer = <<>>

\* C29: the restructured runner stops after too many consecutive collector
\* exits: once the collector has exited max_consecutive_failures times in a
\* row, run_with_restart has stopped restarting it.
C29_StopsAfterConsecutiveExits ==
    (runner = Restructured /\ exits_in_a_row >= max_consecutive_failures) =>
        runner_pc = "stopped"

\* What the restructured runner does: the sleep that follows an exit ends
\* with consecutive_failures = 0, whatever the counter was.
C29_CounterResetAfterExit ==
    [][ (runner = Restructured /\ runner_pc = "sleep_exit" /\ runner_event' = "wake") =>
            consecutive_failures' = 0 ]_vars

\* C30: the original runner restarts the collector after every non-zero
\* exit, sleeping min(60 * n, 300) seconds after the n-th failure; it never
\* restarts after exit code 0; it stops, for good, exactly when the
\* collector exits with code 0, the failure count reaches 8, or the user
\* interrupts.
C30_OriginalRunner ==
    [][ (runner = Original) =>
            LET n == consecutive_failures'
            IN  /\ (runner_event' = "exit" /\ return_code' # 0) =>
                       /\ n = consecutive_failures + 1
                       /\ (n < 8) =>
                              /\ runner_pc' = "sleep_exit"
                              /\ wait_time' = IF 60 * n <= 300 THEN 60 * n ELSE 300
                /\ (runner_pc = "sleep_exit" /\ runner_event' # "interrupt") =>
                       runner_pc' = "start"
                /\ (runner_pc = "start" /\ runner_event' = "launch") =>
                       runner_pc' = "streaming"
                /\ (runner_event' = "exit" /\ return_code' = 0) => runner_pc' = "stopped"
                /\ (runner_pc' = "stopped") <=>
                       \/ (runner_event' = "exit" /\ return_code' = 0)
                       \/ n >= 8
                       \/ runner_event' = "interrupt"
                /\ runner_pc # "stopped"
      ]_vars

\* C30 witness: the sixth failure in a row was a non-zero exit and the
\* runner sleeps the capped 300 seconds before the restart.
C30_Witness ==
    /\ runner = Original
    /\ runner_event = "exit" /\ return_code = 1
    /\ consecutive_failures = 6
    /\ exits_in_a_row = 6
    /\ runner_pc = "sleep_exit"
    /\ wait_time = 300

====
